---------------------------- MODULE Spec2Model ----------------------------
(***************************************************************************)
(* Pattern similarity search and outcome projection of the silver analysis *)
(* system: the sliding-window scanners of core/improved_pattern_matcher.py *)
(* and core/silver_pattern_matcher.py, and the outcome projector of        *)
(* core/pattern_future_predictor.py.                                       *)
(*                                                                         *)
(* Numbers.  Prices are small positive integers.  A real-valued quantity   *)
(* of the program (a return, a slope, a similarity) is held as an integer  *)
(* count of 1/Q units, and every operation is the program's formula        *)
(* followed by rounding toward zero to that resolution.  The scanners'     *)
(* percent-change patterns are held in whole percent, the predictor's in   *)
(* 1/Q percent; the predictor's weighted sums are exact fractions over the *)
(* sum of the scores.  Pandas objects keep their index:                    *)
(* a Series is a sequence of [t, v] records (t the timestamp label), a     *)
(* DataFrame a sequence of bars [t, close, high, low].                     *)
(***************************************************************************)
EXTENDS Integers, Sequences, FiniteSets, TLC

\* resolution of the fixed-point representation of a real number
Q == 100

\* ----------------------------------------------------------------------
\* arithmetic helpers
\* ----------------------------------------------------------------------
Abs(x) == IF x < 0 THEN -x ELSE x

Max2(x, y) == IF y > x THEN y ELSE x

Min2(x, y) == IF y < x THEN y ELSE x

\* a / b for b > 0, rounded toward zero
Quot(a, b) == IF a >= 0 THEN a \div b ELSE -((-a) \div b)

RECURSIVE SqrtSearch(_, _, _)
SqrtSearch(x, lo, hi) ==
    IF lo >= hi THEN lo
    ELSE LET mid == (lo + hi + 1) \div 2
         IN  IF mid * mid <= x THEN SqrtSearch(x, mid, hi)
                               ELSE SqrtSearch(x, lo, mid - 1)

\* floor of the square root of x >= 0
ISqrt(x) == SqrtSearch(x, 0, Min2(x, 46340))

Sign(x) == IF x > 0 THEN 1 ELSE IF x < 0 THEN -1 ELSE 0

RECURSIVE SumSeq(_)
SumSeq(s) == IF s = <<>> THEN 0 ELSE Head(s) + SumSeq(Tail(s))

MaxSeq(s) == CHOOSE x \in {s[i] : i \in DOMAIN s} : \A i \in DOMAIN s : s[i] <= x

MinSeq(s) == CHOOSE x \in {s[i] : i \in DOMAIN s} : \A i \in DOMAIN s : s[i] >= x

\* ----------------------------------------------------------------------
\* pandas / numpy primitives
\* ----------------------------------------------------------------------
\* column of a DataFrame as a Series: the index labels come along
Col(data, c) == [i \in DOMAIN data |-> [t |-> data[i].t, v |-> data[i][c]]]

\* Series.values / positional view
Vals(s) == [i \in DOMAIN s |-> s[i].v]

\* a slice that takes the bar at j as well
ILocInclusive(data, i, j) == SubSeq(data, i + 1, Min2(j + 1, Len(data)))

\* DataFrame.iloc[i:j] with 0-based i, exclusive j (both within range)
ILoc(data, i, j) == SubSeq(data, i + 1, j)

\* Python list slice lst[:n]: a negative n counts from the end
SliceTo(lst, n) ==
    IF n >= 0 THEN SubSeq(lst, 1, Min2(n, Len(lst)))
    ELSE SubSeq(lst, 1, Max2(Len(lst) + n, 0))

\* n * sum(x^2) - sum(x)^2, the scaled sum of squared deviations
Dev2(xs) ==
    Len(xs) * SumSeq([i \in DOMAIN xs |-> xs[i] * xs[i]]) - SumSeq(xs) * SumSeq(xs)

\* Series.std(): sample standard deviation (ddof = 1), in the unit of xs;
\* undefined (NaN) below two points, which no caller of this model reaches
StdSample(xs) == ISqrt(Quot(Dev2(xs), Len(xs) * (Len(xs) - 1)))

\* Series.align(other, join="inner"): the labels present in both, in order
AlignInner(s1, s2) ==
    LET RECURSIVE Pairs(_)
        Pairs(i) ==
            IF i > Len(s1) THEN <<>>
            ELSE LET js == {j \in DOMAIN s2 : s2[j].t = s1[i].t}
                 IN  IF js = {} THEN Pairs(i + 1)
                     ELSE <<[a |-> s1[i].v, b |-> s2[CHOOSE j \in js : TRUE].v]>>
                          \o Pairs(i + 1)
    IN  Pairs(1)

\* a float result that may be NaN
NaN == [nan |-> TRUE, v |-> 0]

Num(x) == [nan |-> FALSE, v |-> x]

\* np.corrcoef on two equal-length vectors, in 1/Q units: NaN when either has
\* zero variance or there are fewer than two points, clipped to [-1, 1] as
\* numpy does
CorrCoef(xs, ys) ==
    IF Len(xs) < 2 THEN NaN
    ELSE LET n   == Len(xs)
             num == n * SumSeq([i \in DOMAIN xs |-> xs[i] * ys[i]])
                    - SumSeq(xs) * SumSeq(ys)
             sx  == ISqrt(Dev2(xs))
             sy  == ISqrt(Dev2(ys))
         IN  IF Dev2(xs) = 0 \/ Dev2(ys) = 0 THEN NaN
             ELSE Num(Max2(-Q, Min2(Q, Quot(Q * num, sx * sy))))

\* Series.corr(other): Pearson correlation over the inner-aligned labels
SeriesCorr(s1, s2) ==
    LET al == AlignInner(s1, s2)
    IN  IF Len(al) = 0 THEN NaN
        ELSE CorrCoef([i \in DOMAIN al |-> al[i].a], [i \in DOMAIN al |-> al[i].b])


\* ----------------------------------------------------------------------
\* core/improved_pattern_matcher.py : ImprovedPatternMatcher
\* ----------------------------------------------------------------------
\* the z-score with the population std (ddof = 0) as the divisor
ZScorePopulation(prices) ==
    LET xs == Vals(prices)
        n  == Len(xs)
    IN  IF n < 2 THEN [i \in DOMAIN prices |-> [t |-> prices[i].t, v |-> Q * xs[i]]]
        ELSE IF Dev2(xs) = 0
             THEN [i \in DOMAIN prices |-> [t |-> prices[i].t, v |-> 0]]
        ELSE LET nstd == ISqrt(Q * Q * Dev2(xs))   \* Q * n * std
             IN  [i \in DOMAIN prices |->
                    [t |-> prices[i].t,
                     v |-> Quot(Q * Q * (n * xs[i] - SumSeq(xs)), nstd)]]

\* normalize_pattern_zscore: (x - mean) / std with the sample std, zeros for a
\* flat series, the series itself below two points.  Result in 1/Q units.
normalize_pattern_zscore(prices) ==
    LET xs == Vals(prices)
        n  == Len(xs)
    IN  IF n < 2 THEN [i \in DOMAIN prices |-> [t |-> prices[i].t, v |-> Q * xs[i]]]
        ELSE IF Dev2(xs) = 0
             THEN [i \in DOMAIN prices |-> [t |-> prices[i].t, v |-> 0]]
        ELSE LET nstd == ISqrt(Quot(Q * Q * n * Dev2(xs), n - 1))   \* Q * n * std
             IN  [i \in DOMAIN prices |->
                    [t |-> prices[i].t,
                     v |-> Quot(Q * Q * (n * xs[i] - SumSeq(xs)), nstd)]]

\* normalize_pattern_minmax: (x - min) / (max - min) in 1/Q units, zeros for
\* a flat series, the series itself below two points
normalize_pattern_minmax(prices) ==
    LET xs == Vals(prices)
    IN  IF Len(xs) < 2 THEN [i \in DOMAIN prices |-> [t |-> prices[i].t, v |-> Q * xs[i]]]
        ELSE IF MaxSeq(xs) = MinSeq(xs)
             THEN [i \in DOMAIN prices |-> [t |-> prices[i].t, v |-> 0]]
        ELSE [i \in DOMAIN prices |->
                [t |-> prices[i].t,
                 v |-> Quot(Q * (xs[i] - MinSeq(xs)), MaxSeq(xs) - MinSeq(xs))]]

\* normalize_price_series (the same in RealPatternMatcher): the values of
\* the percent change against the first price, in whole percent; the one
\* element array [0] below two points
normalize_price_series(prices) ==
    IF Len(prices) < 2 THEN <<0>>
    ELSE LET first_price == prices[1].v
         IN  [i \in DOMAIN prices |-> Quot(100 * (prices[i].v - first_price), first_price)]

\* np.polyfit(x, y, 1)[0] for x = 0..n-1: the least-squares slope, in 1/Q
PolyfitSlope(ys) ==
    LET n   == Len(ys)
        xs  == [i \in 1..n |-> i - 1]
        num == n * SumSeq([i \in 1..n |-> xs[i] * ys[i]]) - SumSeq(xs) * SumSeq(ys)
    IN  Quot(Q * num, Dev2(xs))

\* number of places where np.sign of the first difference changes value
DirectionChanges(cs) ==
    LET d == [i \in 1..(Len(cs) - 1) |-> Sign(cs[i + 1] - cs[i])]
    IN  Cardinality({i \in 1..(Len(d) - 1) : d[i + 1] # d[i]})

\* extract_pattern_features on a window of at least three bars with
\* positive closes; every real-valued feature in 1/Q units
extract_pattern_features(data) ==
    LET cs   == Vals(Col(data, "close"))
        hs   == Vals(Col(data, "high"))
        ls   == Vals(Col(data, "low"))
        n    == Len(cs)
        rets == [i \in 1..(n - 1) |-> Quot(Q * (cs[i + 1] - cs[i]), cs[i])]
        up   == Cardinality({i \in 2..n : cs[i] > cs[i - 1]})
    IN  [total_return      |-> Quot(Q * (cs[n] - cs[1]), cs[1]),
         volatility        |-> StdSample(rets),
         max_gain          |-> Quot(Q * (MaxSeq(hs) - cs[1]), cs[1]),
         max_loss          |-> Quot(Q * (MinSeq(ls) - cs[1]), cs[1]),
         trend_slope       |-> PolyfitSlope(cs),
         direction_changes |-> DirectionChanges(cs),
         up_ratio          |-> IF n > 1 THEN Quot(Q * up, n - 1) ELSE Q \div 2]

\* calculate_shape_similarity: max(0, Pearson correlation), 0.0 for unequal
\* or short patterns, a flat pattern, or an undefined correlation
calculate_shape_similarity(pattern1, pattern2) ==
    IF Len(pattern1) # Len(pattern2) \/ Len(pattern1) < 3 THEN 0
    ELSE IF Dev2(Vals(pattern1)) = 0 \/ Dev2(Vals(pattern2)) = 0 THEN 0
    ELSE LET correlation == SeriesCorr(pattern1, pattern2)
         IN  IF correlation.nan THEN 0 ELSE Max2(0, correlation.v)

\* 1 / (1 + k * diff) for diff in 1/Q units and k = kn / kd
Decay(diff, kn, kd) == Quot(Q * Q * kd, Q * kd + kn * diff)

\* the trend similarity on signed differences, without the abs
TrendSimilaritySigned(features1, features2) ==
    LET return_diff   == features1.total_return - features2.total_return
        return_sim    == Decay(return_diff, 10, 1)
        slope_diff    == features1.trend_slope - features2.trend_slope
        slope_sim     == Decay(slope_diff, 100, 1)
        up_ratio_diff == features1.up_ratio - features2.up_ratio
        up_ratio_sim  == Q - up_ratio_diff
    IN  Quot(4 * return_sim + 4 * slope_sim + 2 * up_ratio_sim, 10)

\* calculate_trend_similarity
calculate_trend_similarity(features1, features2) ==
    LET return_diff   == Abs(features1.total_return - features2.total_return)
        return_sim    == Decay(return_diff, 10, 1)
        slope_diff    == Abs(features1.trend_slope - features2.trend_slope)
        slope_sim     == Decay(slope_diff, 100, 1)
        up_ratio_diff == Abs(features1.up_ratio - features2.up_ratio)
        up_ratio_sim  == Q - up_ratio_diff
    IN  Quot(4 * return_sim + 4 * slope_sim + 2 * up_ratio_sim, 10)

\* calculate_volatility_similarity
calculate_volatility_similarity(features1, features2) ==
    LET vol_diff       == Abs(features1.volatility - features2.volatility)
        vol_sim        == Decay(vol_diff, 50, 1)
        max_gain_diff  == Abs(features1.max_gain - features2.max_gain)
        max_gain_sim   == Decay(max_gain_diff, 10, 1)
        max_loss_diff  == Abs(features1.max_loss - features2.max_loss)
        max_loss_sim   == Decay(max_loss_diff, 10, 1)
        direction_diff == Abs(features1.direction_changes - features2.direction_changes)
        direction_sim  == Quot(Q * 10, 10 + direction_diff)
    IN  Quot(30 * vol_sim + 25 * max_gain_sim + 25 * max_loss_sim + 20 * direction_sim,
             100)

\* the plain weighted score shape*0.5 + trend*0.3 + volatility*0.2
PlainScore(shape_sim, trend_sim, vol_sim) ==
    Quot(5 * shape_sim + 3 * trend_sim + 2 * vol_sim, 10)

\* the fallback without its shape guard and without the max: the damped
\* alternative replaces the score whenever trend and volatility exceed 0.5
CombinedScoreUnguarded(shape_sim, trend_sim, vol_sim) ==
    IF 10 * trend_sim > 5 * Q /\ 10 * vol_sim > 5 * Q
    THEN Quot(8 * Quot(5 * trend_sim + 5 * vol_sim, 10), 10)
    ELSE PlainScore(shape_sim, trend_sim, vol_sim)

\* the fallback with its three comparisons inclusive
CombinedScoreInclusive(shape_sim, trend_sim, vol_sim) ==
    LET combined_score == PlainScore(shape_sim, trend_sim, vol_sim)
    IN  IF 10 * shape_sim <= 3 * Q /\ 10 * trend_sim >= 5 * Q /\ 10 * vol_sim >= 5 * Q
        THEN LET alternative_score == Quot(5 * trend_sim + 5 * vol_sim, 10)
             IN  Max2(combined_score, Quot(8 * alternative_score, 10))
        ELSE combined_score

\* the score find_similar_patterns stores: the plain score, raised to
\* 0.8 * (trend*0.5 + vol*0.5) when shape < 0.3, trend > 0.5 and vol > 0.5
CombinedScore(shape_sim, trend_sim, vol_sim) ==
    LET combined_score == PlainScore(shape_sim, trend_sim, vol_sim)
    IN  IF 10 * shape_sim < 3 * Q /\ 10 * trend_sim > 5 * Q /\ 10 * vol_sim > 5 * Q
        THEN LET alternative_score == Quot(5 * trend_sim + 5 * vol_sim, 10)
             IN  Max2(combined_score, Quot(8 * alternative_score, 10))
        ELSE combined_score

\* find_similar_patterns of ImprovedPatternMatcher: one match per window
\* start 0 .. n - window_size, in scan order; none for a short series
ImprovedFindSimilarPatterns(target_data, silver_pattern, silver_features, symbol, window_size) ==
    IF Len(target_data) < window_size THEN <<>>
    ELSE [k \in 1..(Len(target_data) - window_size + 1) |->
            LET i               == k - 1
                window_data     == ILoc(target_data, i, i + window_size)
                window_pattern  == normalize_pattern_zscore(Col(window_data, "close"))
                window_features == extract_pattern_features(window_data)
                shape_sim == calculate_shape_similarity(silver_pattern, window_pattern)
                trend_sim == calculate_trend_similarity(silver_features, window_features)
                vol_sim   == calculate_volatility_similarity(silver_features,
                                                             window_features)
            IN  [symbol           |-> symbol,
                 similarity_score |-> CombinedScore(shape_sim, trend_sim, vol_sim),
                 start_index      |-> i,
                 end_index        |-> i + window_size - 1,
                 start_time       |-> window_data[1].t,
                 end_time         |-> window_data[Len(window_data)].t,
                 pattern_length   |-> window_size,
                 subs             |-> <<shape_sim, trend_sim, vol_sim>>]]

\* ----------------------------------------------------------------------
\* core/silver_pattern_matcher.py : SilverPatternMatcher
\* ----------------------------------------------------------------------
RECURSIVE Gcd(_, _)
Gcd(a, b) == IF b = 0 THEN a ELSE Gcd(b, a % b)

RECURSIVE GcdSeq(_)
GcdSeq(xs) == IF xs = <<>> THEN 0 ELSE Gcd(Abs(Head(xs)), GcdSeq(Tail(xs)))

\* normalize_prices: percent change against the first price, in whole
\* percent; the series itself below two points
normalize_prices(prices) ==
    IF Len(prices) < 2 THEN prices
    ELSE LET first_price == prices[1].v
         IN  [i \in DOMAIN prices |->
                [t |-> prices[i].t,
                 v |-> Quot(100 * (prices[i].v - first_price), first_price)]]

\* extract_price_pattern with use_close = True
extract_price_pattern(data) == normalize_prices(Col(data, "close"))

\* calculate_euclidean_similarity.  pattern1 - pattern2 is a Series
\* subtraction: it aligns on the index labels and leaves NaN where a label is
\* in one operand only, and np.sum skips the NaN, so the distance runs over
\* the labels the two patterns share.
calculate_euclidean_similarity(pattern1, pattern2) ==
    IF Len(pattern1) # Len(pattern2) THEN 0
    ELSE IF Len(pattern1) = 0 THEN 0
    ELSE LET al    == AlignInner(pattern1, pattern2)
             sumsq == SumSeq([i \in DOMAIN al |-> (al[i].a - al[i].b) * (al[i].a - al[i].b)])
             \* (distance / max_possible_distance)^2 = sumsq / (len * 100^2)
             ratio == ISqrt(Quot(Q * Q * Quot(sumsq, 100), 100 * Len(pattern1)))
         IN  Max2(0, Q - ratio)

\* a / d <= c / b for a, c >= 0 and b, d > 0, decided on the continued
\* fractions so that no product is formed
RECURSIVE LeqFrac(_, _, _, _)
LeqFrac(a, d, c, b) ==
    IF a \div d # c \div b THEN a \div d < c \div b
    ELSE IF a % d = 0 THEN TRUE
    ELSE IF c % b = 0 THEN FALSE
    ELSE LeqFrac(b, c % b, d, a % d)

\* floor of Q * |dot| / sqrt(n1 * n2), found exactly: the largest c with
\* c^2 * n1 * n2 <= Q^2 * dot^2
RECURSIVE CosSearch(_, _, _, _, _)
CosSearch(dot, n1, n2, lo, hi) ==
    IF lo >= hi THEN lo
    ELSE LET mid == (lo + hi + 1) \div 2
         IN  IF LeqFrac(mid * mid * n1, Abs(dot), Q * Q * Abs(dot), n2)
             THEN CosSearch(dot, n1, n2, mid, hi)
             ELSE CosSearch(dot, n1, n2, lo, mid - 1)

\* dot(a, b) / (|a| * |b|) in 1/Q units for non-zero vectors.  The cosine
\* does not change when a vector is scaled by a positive factor, so the
\* common factor of each vector is divided out first to keep the integers
\* small.
Cosine(xs, ys) ==
    LET gx  == GcdSeq(xs)
        gy  == GcdSeq(ys)
        a   == [i \in DOMAIN xs |-> xs[i] \div gx]
        b   == [i \in DOMAIN ys |-> ys[i] \div gy]
        dot == SumSeq([i \in DOMAIN a |-> a[i] * b[i]])
        n1  == SumSeq([i \in DOMAIN a |-> a[i] * a[i]])
        n2  == SumSeq([i \in DOMAIN b |-> b[i] * b[i]])
    IN  IF dot = 0 THEN 0 ELSE Sign(dot) * CosSearch(dot, n1, n2, 0, 2 * Q)

\* the cosine returned as it is, without the remapping to [0, 1]
SilverCosineRaw(pattern1, pattern2) ==
    IF Len(pattern1) # Len(pattern2) THEN 0
    ELSE LET xs == Vals(pattern1)
             ys == Vals(pattern2)
         IN  IF GcdSeq(xs) = 0 \/ GcdSeq(ys) = 0 THEN 0
             ELSE Cosine(xs, ys)

\* calculate_cosine_similarity (np.dot and np.linalg.norm are positional):
\* (cos + 1) / 2, and 0.0 for a zero vector
SilverCosineSimilarity(pattern1, pattern2) ==
    IF Len(pattern1) # Len(pattern2) THEN 0
    ELSE LET xs == Vals(pattern1)
             ys == Vals(pattern2)
         IN  IF GcdSeq(xs) = 0 \/ GcdSeq(ys) = 0 THEN 0
             ELSE Quot(Cosine(xs, ys) + Q, 2)

\* np.inf in the DTW cost matrix
Inf == 1000000000

\* a row built from the cell to the left and the diagonal cell only
RECURSIVE DtwRowNoInsertion(_, _, _, _, _)
DtwRowNoInsertion(ai, ys, prev, j, acc) ==
    IF j > Len(ys) THEN acc
    ELSE LET cost == Abs(ai - ys[j])
             best == Min2(acc[j], prev[j])
             cell == IF best >= Inf THEN Inf ELSE cost + best
         IN  DtwRowNoInsertion(ai, ys, prev, j + 1, Append(acc, cell))

\* row i of the DTW matrix from row i - 1 (cells j = 0..m held at 1..m+1)
RECURSIVE DtwRow(_, _, _, _, _)
DtwRow(ai, ys, prev, j, acc) ==
    IF j > Len(ys) THEN acc
    ELSE LET cost == Abs(ai - ys[j])
             best == Min2(prev[j + 1], Min2(acc[j], prev[j]))
             cell == IF best >= Inf THEN Inf ELSE cost + best
         IN  DtwRow(ai, ys, prev, j + 1, Append(acc, cell))

\* the rows one after the other, each complete before the next is begun
RECURSIVE DtwRows(_, _, _, _)
DtwRows(xs, ys, i, prev) ==
    IF i > Len(xs) THEN prev
    ELSE LET row == DtwRow(xs[i], ys, prev, 1, <<Inf>>)
         IN  IF Len(row) > Len(ys) THEN DtwRows(xs, ys, i + 1, row) ELSE row

\* dtw_matrix[n, m] of the (n+1) x (m+1) matrix with dtw_matrix[0, 0] = 0
DtwCost(xs, ys) ==
    LET row0 == [j \in 1..(Len(ys) + 1) |-> IF j = 1 THEN 0 ELSE Inf]
    IN  DtwRows(xs, ys, 1, row0)[Len(ys) + 1]

\* calculate_dtw_similarity (positional, .iloc): max(0, 1 - cost / (n * 100))
SilverDtwSimilarity(pattern1, pattern2) ==
    IF Len(pattern1) # Len(pattern2) THEN 0
    ELSE IF Len(pattern1) = 0 THEN 0
    ELSE LET n == Len(pattern1)
         IN  Max2(0, Q - Quot(Q * DtwCost(Vals(pattern1), Vals(pattern2)), n * 100))

\* calculate_pattern_correlation: |Series.corr|, 0.0 when undefined
calculate_pattern_correlation(pattern1, pattern2) ==
    IF Len(pattern1) # Len(pattern2) \/ Len(pattern1) < 2 THEN 0
    ELSE LET correlation == SeriesCorr(pattern1, pattern2)
         IN  IF correlation.nan THEN 0 ELSE Abs(correlation.v)

\* the weighted mean euclidean*0.3 + cosine*0.3 + correlation*0.2 + dtw*0.2
SilverCombinedScore(euclidean_sim, cosine_sim, correlation_sim, dtw_sim) ==
    Quot(3 * euclidean_sim + 3 * cosine_sim + 2 * correlation_sim + 2 * dtw_sim, 10)

\* find_similar_patterns of SilverPatternMatcher
SilverFindSimilarPatterns(target_data, silver_pattern, symbol, window_size) ==
    IF Len(target_data) < window_size THEN <<>>
    ELSE [k \in 1..(Len(target_data) - window_size + 1) |->
            LET i              == k - 1
                window_data    == ILoc(target_data, i, i + window_size)
                window_pattern == extract_price_pattern(window_data)
                euclidean_sim  == calculate_euclidean_similarity(silver_pattern,
                                                                 window_pattern)
                cosine_sim     == SilverCosineSimilarity(silver_pattern, window_pattern)
                correlation_sim == calculate_pattern_correlation(silver_pattern,
                                                                 window_pattern)
                dtw_sim        == SilverDtwSimilarity(silver_pattern, window_pattern)
            IN  [symbol           |-> symbol,
                 similarity_score |-> SilverCombinedScore(euclidean_sim, cosine_sim,
                                                          correlation_sim, dtw_sim),
                 start_index      |-> i,
                 end_index        |-> i + window_size - 1,
                 start_time       |-> window_data[1].t,
                 end_time         |-> window_data[Len(window_data)].t,
                 pattern_length   |-> window_size,
                 subs             |-> <<euclidean_sim, cosine_sim, correlation_sim,
                                        dtw_sim>>]]

\* ----------------------------------------------------------------------
\* visualizers/real_pattern_visualizer.py : RealPatternMatcher
\* (patterns are np arrays: every operation is positional)
\* ----------------------------------------------------------------------
\* calculate_euclidean_similarity: 1 - distance / sqrt(len * 100^2), clamped
\* to [0, 1]
RealEuclideanSimilarity(pattern1, pattern2) ==
    IF Len(pattern1) # Len(pattern2) THEN 0
    ELSE LET sumsq == SumSeq([i \in DOMAIN pattern1 |->
                                 (pattern1[i] - pattern2[i]) * (pattern1[i] - pattern2[i])])
             ratio == ISqrt(Quot(Q * Q * Quot(sumsq, 100), 100 * Len(pattern1)))
         IN  Max2(0, Min2(Q, Q - ratio))

\* calculate_dtw_distance: dtw_matrix[n, m], inf for unequal lengths
calculate_dtw_distance(pattern1, pattern2) ==
    IF Len(pattern1) # Len(pattern2) THEN Inf
    ELSE DtwCost(pattern1, pattern2)

\* the clamped distance ratio itself, not its complement
RealDtwDissimilarity(pattern1, pattern2) ==
    LET dtw_distance == calculate_dtw_distance(pattern1, pattern2)
    IN  IF dtw_distance >= Inf THEN 0
        ELSE Max2(0, Min2(Q, Quot(Q * dtw_distance, Len(pattern1) * 100)))

\* calculate_dtw_similarity: 1 - distance / (len * 100), clamped to [0, 1]
RealDtwSimilarity(pattern1, pattern2) ==
    LET dtw_distance == calculate_dtw_distance(pattern1, pattern2)
    IN  IF dtw_distance >= Inf THEN 0
        ELSE Max2(0, Min2(Q, Q - Quot(Q * dtw_distance, Len(pattern1) * 100)))

\* calculate_pearson_correlation: |np.corrcoef|, 0.0 when undefined
calculate_pearson_correlation(pattern1, pattern2) ==
    IF Len(pattern1) # Len(pattern2) \/ Len(pattern1) < 2 THEN 0
    ELSE LET correlation == CorrCoef(pattern1, pattern2)
         IN  IF correlation.nan THEN 0 ELSE Abs(correlation.v)

\* calculate_cosine_similarity: |cos|, 0.0 for a zero vector
RealCosineSimilarity(pattern1, pattern2) ==
    IF Len(pattern1) # Len(pattern2) THEN 0
    ELSE IF GcdSeq(pattern1) = 0 \/ GcdSeq(pattern2) = 0 THEN 0
    ELSE Abs(Cosine(pattern1, pattern2))

\* calculate_combined_similarity: the score and its details
calculate_combined_similarity(pattern1, pattern2) ==
    LET euclidean_sim == RealEuclideanSimilarity(pattern1, pattern2)
        dtw_sim       == RealDtwSimilarity(pattern1, pattern2)
        pearson_sim   == calculate_pearson_correlation(pattern1, pattern2)
        cosine_sim    == RealCosineSimilarity(pattern1, pattern2)
    IN  [euclidean |-> euclidean_sim,
         dtw       |-> dtw_sim,
         pearson   |-> pearson_sim,
         cosine    |-> cosine_sim,
         combined  |-> Quot(3 * euclidean_sim + 3 * dtw_sim + 2 * pearson_sim
                            + 2 * cosine_sim, 10)]

\* ----------------------------------------------------------------------
\* bounds of the model and the inputs drawn within them
\* ----------------------------------------------------------------------
\* silver_bars, the length of the reference pattern and of every window
SilverBars == 3

\* the bar count below which run_pattern_matching skips a candidate series
MinViableBars == 4

\* longest candidate series
MaxBars == 5

\* prices run over BasePrice .. BasePrice + PriceLevels - 1
BasePrice == 4

PriceLevels == 2

\* top_n runs over -1 .. MaxTopN
MaxTopN == 2

Prices == BasePrice..(BasePrice + PriceLevels - 1)

\* DataManager.get_data returned None
NoData == [none |-> TRUE, raises |-> FALSE, bars |-> <<>>]

\* fetching or scanning the series raises an exception
Raising == [none |-> FALSE, raises |-> TRUE, bars |-> <<>>]

\* DataManager.get_data returned a DataFrame of these bars
Data(bars) == [none |-> FALSE, raises |-> FALSE, bars |-> bars]

\* a bar at time t closing at c, with a wick of w on either side
Bar(t, c, w) == [t |-> t, close |-> c, high |-> c + w, low |-> c - w]

\* every series of n bars at the consecutive times t0, t0 + 1, ...
SeriesOfLen(n, t0) ==
    {[i \in 1..n |-> Bar(t0 + i - 1, cs[i], w)] : cs \in [1..n -> Prices], w \in {0, 1}}

\* what get_data can hand back for the freely chosen candidate: nothing, an
\* exception, or any series of up to MaxBars bars starting at time 1
FreeCandidates ==
    {NoData, Raising} \cup {Data(b) : b \in UNION {SeriesOfLen(n, 1) : n \in 0..MaxBars}}

\* the second candidate comes from a short catalogue: no data, an
\* exception, a rising and a zig-zag series over the same times as the first
RisingBars(n) == [i \in 1..n |-> Bar(i, BasePrice + ((i - 1) % PriceLevels), 0)]

ZigZagBars(n) == [i \in 1..n |-> Bar(i, BasePrice + (i % 2), 1)]

CatalogueCandidates ==
    {NoData, Raising, Data(RisingBars(MaxBars)), Data(ZigZagBars(MaxBars - 1))}

\* n reference bars ending at time tl, peaking on the last bar but one
RefBars(n, tl) ==
    [i \in 1..n |-> Bar(tl - n + i, BasePrice + (IF i = n - 1 THEN 1 ELSE 0), 0)]

\* the reference data: nothing, too few bars, SilverBars bars over the
\* candidates' first bars, SilverBars bars starting on the candidates' bar
\* MaxBars, or SilverBars + 1 bars of which the last SilverBars start after it
SilverInputs ==
    {NoData, Data(RisingBars(SilverBars - 1)),
     Data(RefBars(SilverBars, SilverBars)),
     Data(RefBars(SilverBars, MaxBars + SilverBars - 1)),
     Data(RefBars(SilverBars + 1, MaxBars + SilverBars))}

TopNs == (-1)..MaxTopN

\* min_similarity thresholds, in 1/Q units
MinSimilarities == {(3 * Q) \div 10, (6 * Q) \div 10}

\* ----------------------------------------------------------------------
\* state
\* ----------------------------------------------------------------------
VARIABLES
    matcher,          \* which scanner runs: "improved" or "silver"
    silver_data_full, \* what get_data returns for the reference symbol
    target,           \* target[s]: what get_data returns for candidate s
    top_n,            \* argument of run_pattern_matching
    min_similarity,   \* argument of run_pattern_matching
    exclude_recent,   \* argument of ImprovedPatternMatcher.run_pattern_matching
    show_all_top,     \* argument of ImprovedPatternMatcher.run_pattern_matching
    pc,               \* "start", "scan", "done"
    idx,              \* the pass the loop over the candidate series is at
    order,            \* order[i]: the candidate series scanned in pass i
    all_matches,      \* run_pattern_matching's local list
    windows,          \* every match find_similar_patterns produced, in scan order
    result            \* the returned list

scanVars == <<matcher, silver_data_full, target, top_n, min_similarity,
              exclude_recent, show_all_top, pc, idx, order, all_matches, windows,
              result>>

\* find_similar_patterns called on its own, as test_pattern_matching.py does
VARIABLES
    ref_data,         \* the reference window handed to the scorer
    win_data,         \* the candidate data handed to the scorer
    score_pc,         \* "input", then the matcher that scored
    score_out         \* the list find_similar_patterns returned

scoreVars == <<ref_data, win_data, score_pc, score_out>>

\* PatternFuturePredictor: predict_future_trends, then generate_prediction_report
VARIABLES
    matches,          \* argument of predict_future_trends
    history,          \* history[i]: what get_data does for matches[i]'s series
    future_bars,      \* argument of predict_future_trends
    pred_pc,          \* "loop", "predicted", "reported"
    pred_idx,         \* the match the loop is at
    fetched,          \* what get_future_data_after_match returned, per match
    predictions,      \* predict_future_trends' list
    report            \* the figures generate_prediction_report derives

predVars == <<matches, history, future_bars, pred_pc, pred_idx, fetched,
              predictions, report>>

\* the normalizers and the similarity metrics called on their own
VARIABLES
    metric_a,         \* a window of bars
    metric_b,         \* a second window of the same length
    metric_pc,        \* "input", then the step that ran
    metric_out        \* what the step returned

metricVars == <<metric_a, metric_b, metric_pc, metric_out>>

\* the score lines of ImprovedPatternMatcher.find_similar_patterns on three
\* given similarities
VARIABLES
    fb_sims,          \* <<shape_sim, trend_sim, vol_sim>>, in 1/Q units
    fb_pc,            \* "input", then "scored"
    fb_score          \* the combined_score handed to PatternMatch

fbVars == <<fb_sims, fb_pc, fb_score>>

\* DataManager: its MT5 client, the files of one symbol and timeframe, and
\* the call made last
VARIABLES
    mt5_client,       \* self.mt5_client: "None" or "held"
    client_ready,     \* the held client is initialized and not shut down
    csv,              \* the raw_data CSV: NoFile or the data it holds
    meta_age,         \* hours since last_update of the JSON beside it, -1 without
    dm_calls,         \* calls made so far
    dm_last           \* the last call: its arguments, what it met and returned

dmVars == <<mt5_client, client_ready, csv, meta_age, dm_calls, dm_last>>

\* the menu loop of pattern_future_predictor.main
VARIABLES
    latest_predictions, \* globals()['latest_predictions'], NotSet before the first store
    menu_runs,          \* option-1 runs so far
    menu_last           \* the choice handled last and what it presented

menuVars == <<latest_predictions, menu_runs, menu_last>>

\* RealPatternMatcher.find_best_matches and its loop
VARIABLES
    best_ref,         \* silver_pattern
    best_data,        \* target_data
    best_size,        \* window_size
    best_i,           \* the loop's start offset i
    best_similarity,  \* the local best_similarity, in 1/Q units
    best_match,       \* the local best_match, NoMatch for None
    scored,           \* the offsets scored so far, in order
    best_pc,          \* "call", "loop", "returned"
    best_out          \* the returned list

bestVars == <<best_ref, best_data, best_size, best_i, best_similarity, best_match,
              scored, best_pc, best_out>>

moreVars == <<fbVars, dmVars, menuVars, bestVars>>

vars == <<scanVars, scoreVars, predVars, metricVars, moreVars>>

\* an insertion that puts a match before the matches of equal score
RECURSIVE InsertDescBeforeTies(_, _)
InsertDescBeforeTies(sorted, m) ==
    IF sorted = <<>> THEN <<m>>
    ELSE IF Head(sorted).similarity_score > m.similarity_score
         THEN <<Head(sorted)>> \o InsertDescBeforeTies(Tail(sorted), m)
         ELSE <<m>> \o sorted

\* list.sort(key=similarity_score, reverse=True): stable, descending
RECURSIVE InsertDesc(_, _)
InsertDesc(sorted, m) ==
    IF sorted = <<>> THEN <<m>>
    ELSE IF Head(sorted).similarity_score >= m.similarity_score
         THEN <<Head(sorted)>> \o InsertDesc(Tail(sorted), m)
         ELSE <<m>> \o sorted

\* the merged list left as it is, unranked
KeepOrder(lst) == lst

RECURSIVE SortDesc(_)
SortDesc(lst) ==
    IF lst = <<>> THEN <<>>
    ELSE InsertDesc(SortDesc(SubSeq(lst, 1, Len(lst) - 1)), lst[Len(lst)])

\* [m for m in matches if m.similarity_score >= min_similarity]
RECURSIVE FilterMatches(_, _)
FilterMatches(found, threshold) ==
    IF found = <<>> THEN <<>>
    ELSE IF Head(found).similarity_score >= threshold
         THEN <<Head(found)>> \o FilterMatches(Tail(found), threshold)
         ELSE FilterMatches(Tail(found), threshold)

\* the filter with the boundary bar kept: index <= silver_start_time
RECURSIVE BarsUpTo(_, _)
BarsUpTo(data, time) ==
    IF data = <<>> THEN <<>>
    ELSE IF Head(data).t <= time THEN <<Head(data)>> \o BarsUpTo(Tail(data), time)
         ELSE BarsUpTo(Tail(data), time)

\* target_data[target_data.index < silver_start_time]
RECURSIVE BarsBefore(_, _)
BarsBefore(data, time) ==
    IF data = <<>> THEN <<>>
    ELSE IF Head(data).t < time THEN <<Head(data)>> \o BarsBefore(Tail(data), time)
         ELSE BarsBefore(Tail(data), time)

\* silver_data_full.iloc[-silver_bars:]
SilverData == SubSeq(silver_data_full.bars, Len(silver_data_full.bars) - SilverBars + 1,
                     Len(silver_data_full.bars))

\* the loop body without its check of the bar count
ImprovedScanNoMinimum(s) ==
    LET target_data == target[s].bars
    IN  IF target[s].raises THEN <<>>
        ELSE IF target[s].none THEN <<>>
        ELSE LET silver_start_time == SilverData[1].t
                 kept == BarsBefore(target_data, silver_start_time)
             IN  IF Len(kept) < SilverBars THEN <<>>
                 ELSE ImprovedFindSimilarPatterns(
                          kept,
                          normalize_pattern_zscore(Col(SilverData, "close")),
                          extract_pattern_features(SilverData),
                          s, SilverBars)

\* the matches one pass of ImprovedPatternMatcher's loop body finds in
\* candidate s, before the threshold filter; an exception anywhere in the
\* body is caught and the pass adds nothing
ImprovedScan(s) ==
    LET target_data == target[s].bars
    IN  IF target[s].raises THEN <<>>
        ELSE IF target[s].none THEN <<>>
        ELSE IF Len(target_data) < MinViableBars THEN <<>>
        ELSE LET silver_start_time == SilverData[1].t
                 kept == BarsBefore(target_data, silver_start_time)
             IN  IF Len(kept) < SilverBars THEN <<>>
                 ELSE ImprovedFindSimilarPatterns(
                          kept,
                          normalize_pattern_zscore(Col(SilverData, "close")),
                          extract_pattern_features(SilverData),
                          s, SilverBars)

\* the same for SilverPatternMatcher, whose reference pattern is all of the
\* data get_data returned
SilverScan(s) ==
    LET target_data == target[s].bars
    IN  IF target[s].raises THEN <<>>
        ELSE IF target[s].none THEN <<>>
        ELSE SilverFindSimilarPatterns(target_data,
                                       extract_price_pattern(silver_data_full.bars),
                                       s, SilverBars)

\* generate_prediction_report not called yet
NoReport ==
    [status |-> "none", weights |-> <<>>, weight_sum |-> 0,
     weighted_change |-> 0, weighted_max_gain |-> 0, weighted_max_loss |-> 0,
     weighted_volatility |-> 0, trend_keys |-> <<>>, trend_weights |-> <<>>,
     total_weight |-> 0, trend_probabilities |-> <<>>, most_likely_trend |-> "none"]

\* no metric called
NoOutput == [step |-> "none"]

\* the score lines at rest
FbIdle ==
    /\ fb_sims = <<0, 0, 0>>
    /\ fb_pc = "idle"
    /\ fb_score = 0

\* no CSV file; also None, the value of a call that returns no data
NoFile == [exists |-> FALSE, id |-> 0, n |-> 0]

\* no call made
NoCall == [op |-> "none"]

\* the data manager at rest
DmIdle ==
    /\ mt5_client = "None"
    /\ client_ready = FALSE
    /\ csv = NoFile
    /\ meta_age = -1
    /\ dm_calls = 0
    /\ dm_last = NoCall

\* 'latest_predictions' not in globals()
NotSet == [set |-> FALSE, list |-> <<>>]

\* the menu at rest
MenuIdle ==
    /\ latest_predictions = NotSet
    /\ menu_runs = 0
    /\ menu_last = NoCall

\* best_match = None
NoMatch == [none |-> TRUE]

\* find_best_matches at rest
BestIdle ==
    /\ best_ref = <<>>
    /\ best_data = <<>>
    /\ best_size = 0
    /\ best_i = 0
    /\ best_similarity = -Q
    /\ best_match = NoMatch
    /\ scored = <<>>
    /\ best_pc = "idle"
    /\ best_out = <<>>

MoreIdle == FbIdle /\ DmIdle /\ MenuIdle /\ BestIdle

\* the metrics at rest
MetricIdle ==
    /\ metric_a = <<>>
    /\ metric_b = <<>>
    /\ metric_pc = "idle"
    /\ metric_out = NoOutput

\* the predictor at rest
PredIdle ==
    /\ matches = <<>>
    /\ history = <<>>
    /\ future_bars = 0
    /\ pred_pc = "idle"
    /\ pred_idx = 1
    /\ fetched = <<>>
    /\ predictions = <<>>
    /\ report = NoReport

\* the scorer at rest
ScoreIdle ==
    /\ ref_data = <<>>
    /\ win_data = <<>>
    /\ score_pc = "idle"
    /\ score_out = <<>>

\* the scanner at rest
ScanIdle ==
    /\ matcher = "none"
    /\ silver_data_full = NoData
    /\ target = <<>>
    /\ top_n = 0
    /\ min_similarity = 0
    /\ exclude_recent = TRUE
    /\ show_all_top = FALSE
    /\ pc = "idle"
    /\ idx = 1
    /\ order = <<>>
    /\ all_matches = <<>>
    /\ windows = <<>>
    /\ result = <<>>

\* the arguments and the data of a run; exclude_recent and show_all_top
\* are left at the defaults of the signature
ScanInputs ==
    /\ matcher \in {"improved", "silver"}
    /\ silver_data_full \in SilverInputs
    /\ target \in {<<a, b>> : a \in FreeCandidates, b \in CatalogueCandidates}
    /\ top_n \in TopNs
    /\ min_similarity \in MinSimilarities
    /\ exclude_recent = TRUE
    /\ show_all_top = FALSE
    /\ pc = "start"
    /\ idx = 1
    /\ all_matches = <<>>
    /\ windows = <<>>
    /\ result = <<>>

\* the loop takes the candidate series in the order of target_symbols
ScanInit ==
    /\ ScanInputs
    /\ order = [i \in DOMAIN target |-> i]

\* run_pattern_matching up to the loop: the reference data is fetched, and
\* the call returns [] when it is missing or shorter than silver_bars
Start ==
    /\ pc = "start"
    /\ IF silver_data_full.none \/ Len(silver_data_full.bars) < SilverBars
       THEN pc' = "done"
       ELSE pc' = "scan"
    /\ UNCHANGED <<matcher, silver_data_full, target, top_n, min_similarity,
                   exclude_recent, show_all_top, idx, order, all_matches, windows,
                   result>>
    /\ UNCHANGED <<scoreVars, predVars, metricVars, moreVars>>

\* one pass of the loop over the candidate series
ScanSeries ==
    /\ pc = "scan"
    /\ idx <= Len(target)
    /\ LET found == IF matcher = "improved" THEN ImprovedScan(order[idx])
                    ELSE SilverScan(order[idx])
       IN  /\ windows' = windows \o found
           /\ all_matches' = all_matches \o FilterMatches(found, min_similarity)
    /\ idx' = idx + 1
    /\ UNCHANGED <<matcher, silver_data_full, target, top_n, min_similarity,
                   exclude_recent, show_all_top, pc, order, result>>
    /\ UNCHANGED <<scoreVars, predVars, metricVars, moreVars>>

\* after the loop: sort in place by descending score, return all_matches[:top_n]
Finish ==
    /\ pc = "scan"
    /\ idx > Len(target)
    /\ all_matches' = SortDesc(all_matches)
    /\ result' = SliceTo(SortDesc(all_matches), top_n)
    /\ pc' = "done"
    /\ UNCHANGED <<matcher, silver_data_full, target, top_n, min_similarity,
                   exclude_recent, show_all_top, idx, order, windows>>
    /\ UNCHANGED <<scoreVars, predVars, metricVars, moreVars>>

Init == ScanInit /\ ScoreIdle /\ PredIdle /\ MetricIdle /\ MoreIdle

Next == Start \/ ScanSeries \/ Finish

Spec == Init /\ [][Next]_vars

\* ----------------------------------------------------------------------
\* the per-series scans run in any order and merged before the ranking
\* ----------------------------------------------------------------------
\* every order in which the candidate series can be taken
Orders(n) == {o \in [1..n -> 1..n] : \A i, j \in 1..n : i # j => o[i] # o[j]}

ScanInitAnyOrder ==
    /\ ScanInputs
    /\ order \in Orders(Len(target))

InitAnyOrder == ScanInitAnyOrder /\ ScoreIdle /\ PredIdle /\ MetricIdle /\ MoreIdle

SpecAnyOrder == InitAnyOrder /\ [][Next]_vars

\* ----------------------------------------------------------------------
\* ImprovedPatternMatcher.run_pattern_matching called with every value of
\* its two boolean arguments
\* ----------------------------------------------------------------------
ScanInitOptions ==
    /\ matcher = "improved"
    /\ silver_data_full \in SilverInputs
    /\ target \in {<<a, b>> : a \in FreeCandidates, b \in CatalogueCandidates}
    /\ top_n \in TopNs
    /\ min_similarity \in MinSimilarities
    /\ exclude_recent \in BOOLEAN
    /\ show_all_top \in BOOLEAN
    /\ pc = "start"
    /\ idx = 1
    /\ order = [i \in DOMAIN target |-> i]
    /\ all_matches = <<>>
    /\ windows = <<>>
    /\ result = <<>>

InitOptions == ScanInitOptions /\ ScoreIdle /\ PredIdle /\ MetricIdle /\ MoreIdle

SpecOptions == InitOptions /\ [][Next]_vars

\* ----------------------------------------------------------------------
\* the score lines of find_similar_patterns on given similarities
\* ----------------------------------------------------------------------
\* similarities at, next to and away from the thresholds 0.3 and 0.5
SimilarityValues ==
    {0, (3 * Q) \div 10 - 1, (3 * Q) \div 10, (3 * Q) \div 10 + 1,
     Q \div 2 - 1, Q \div 2, Q \div 2 + 1, Q}

FbInit ==
    /\ fb_sims \in SimilarityValues \X SimilarityValues \X SimilarityValues
    /\ fb_pc = "input"
    /\ fb_score = 0

\* combined_score as the weights and the fallback leave it
ScoreLines ==
    /\ fb_pc = "input"
    /\ fb_score' = CombinedScore(fb_sims[1], fb_sims[2], fb_sims[3])
    /\ fb_pc' = "scored"
    /\ UNCHANGED fb_sims
    /\ UNCHANGED <<scanVars, scoreVars, predVars, metricVars, dmVars, menuVars, bestVars>>

InitFallback ==
    FbInit /\ ScanIdle /\ ScoreIdle /\ PredIdle /\ MetricIdle /\ DmIdle /\ MenuIdle /\ BestIdle

SpecFallback == InitFallback /\ [][ScoreLines]_vars

\* ----------------------------------------------------------------------
\* scoring windows directly: find_similar_patterns on a reference window
\* and candidate data whose timestamps may or may not coincide with it
\* ----------------------------------------------------------------------
\* candidate data of SilverBars or SilverBars + 1 bars starting at the
\* reference's first time, one bar later, or after its last bar
ScoreInit ==
    /\ ref_data \in SeriesOfLen(SilverBars, 1)
    /\ win_data \in UNION {SeriesOfLen(n, t0) : n \in {SilverBars, SilverBars + 1},
                                                t0 \in {1, 2, SilverBars + 1}}
    /\ score_pc = "input"
    /\ score_out = <<>>

\* ImprovedPatternMatcher.find_similar_patterns on the inputs
ScoreImproved ==
    /\ score_pc = "input"
    /\ score_out' = ImprovedFindSimilarPatterns(
                        win_data, normalize_pattern_zscore(Col(ref_data, "close")),
                        extract_pattern_features(ref_data), 1, SilverBars)
    /\ score_pc' = "improved"
    /\ UNCHANGED <<ref_data, win_data>>
    /\ UNCHANGED <<scanVars, predVars, metricVars, moreVars>>

\* SilverPatternMatcher.find_similar_patterns on the inputs
ScoreSilver ==
    /\ score_pc = "input"
    /\ score_out' = SilverFindSimilarPatterns(win_data, extract_price_pattern(ref_data),
                                              1, SilverBars)
    /\ score_pc' = "silver"
    /\ UNCHANGED <<ref_data, win_data>>
    /\ UNCHANGED <<scanVars, predVars, metricVars, moreVars>>

InitScore == ScoreInit /\ ScanIdle /\ PredIdle /\ MetricIdle /\ MoreIdle

NextScore == ScoreImproved \/ ScoreSilver

SpecScore == InitScore /\ [][NextScore]_vars


\* ----------------------------------------------------------------------
\* the outcome projector: core/pattern_future_predictor.py
\* ----------------------------------------------------------------------
\* most ranked matches handed to predict_future_trends
MaxMatches == 2

\* most bars a candidate series holds after a match
MaxAfter == 3

\* moves of a close against the matched window's last close, in percent
PctMoves == {-4, -2, 0, 2, 4}

\* similarity scores of the matches, in 1/Q units
Scores == {0, Q \div 4, Q \div 2}

\* requested bar counts: the CLI passes int(input()) unchecked
FutureBarCounts == (-1)..MaxAfter

\* last close of the window matched in series sym
StartPrice(sym) == 50 * sym

\* the matched window: SilverBars flat bars at the times 1..SilverBars
PatternBars(sym) == [i \in 1..SilverBars |-> Bar(i, StartPrice(sym), 0)]

\* k bars after the window: swinging +4%, -4%, ... and ending at move p
AfterBars(sym, k, p) ==
    [i \in 1..k |->
        LET move == IF i = k THEN p ELSE IF i % 2 = 1 THEN 4 ELSE -4
        IN  Bar(SilverBars + i, StartPrice(sym) + (StartPrice(sym) * move) \div 100, 0)]

\* what DataManager.get_data does for a match's series: returns None,
\* raises, or returns the window followed by k bars
Outcomes ==
    {<<"none", 0, 0>>, <<"raise", 0, 0>>, <<"data", 0, 0>>}
    \cup {<<"data", 1, p>> : p \in PctMoves}
    \cup {<<"data", k, 0>> : k \in 2..MaxAfter}

Fetched(sym, o) ==
    [outcome |-> o[1],
     bars    |-> IF o[1] = "data" THEN PatternBars(sym) \o AfterBars(sym, o[2], o[3])
                 ELSE <<>>]

\* the mask with the match's last bar let through: index >= match_end_time
RECURSIVE BarsFrom(_, _)
BarsFrom(data, time) ==
    IF data = <<>> THEN <<>>
    ELSE IF Head(data).t >= time THEN <<Head(data)>> \o BarsFrom(Tail(data), time)
         ELSE BarsFrom(Tail(data), time)

\* full_data[full_data.index > match_end_time]
RECURSIVE BarsAfter(_, _)
BarsAfter(data, time) ==
    IF data = <<>> THEN <<>>
    ELSE IF Head(data).t > time THEN <<Head(data)>> \o BarsAfter(Tail(data), time)
         ELSE BarsAfter(Tail(data), time)

\* DataFrame.head(n): the first n rows, all but the last -n for a negative n
DataFrameHead(data, n) == SliceTo(data, n)

\* get_future_data_after_match: None (NoData) or a DataFrame; a raising
\* get_data is caught and gives None
get_future_data_after_match(match, full_data, bars_wanted) ==
    IF full_data.outcome # "data" THEN NoData
    ELSE LET future_data == BarsAfter(full_data.bars, match.end_time)
         IN  IF Len(future_data) < bars_wanted
             THEN IF Len(future_data) > 0 THEN Data(future_data) ELSE NoData
             ELSE Data(DataFrameHead(future_data, bars_wanted))

\* (price - start_price) / start_price * 100, in 1/Q percent
PercentChange(price, start_price) == Quot((price - start_price) * 100 * Q, start_price)

\* np.std: population standard deviation (ddof = 0), in the unit of xs
StdPopulation(xs) == ISqrt(Quot(Dev2(xs), Len(xs) * Len(xs)))

\* the classification with the thresholds themselves counted as moves
TrendDirectionInclusive(total_change) ==
    IF total_change >= 2 * Q THEN "up"
    ELSE IF total_change <= -2 * Q THEN "down"
    ELSE "range"

\* trend_direction: "up" stands for the source's label for a rise, "down"
\* for a fall, "range" for neither
TrendDirection(total_change) ==
    IF total_change > 2 * Q THEN "up"
    ELSE IF total_change < -2 * Q THEN "down"
    ELSE "range"

\* analyze_future_pattern returned None
NoPrediction == [none |-> TRUE]

analyze_future_pattern(future_data, match) ==
    IF future_data.none \/ Len(future_data.bars) = 0 THEN NoPrediction
    ELSE LET start_price    == match.pattern_data[Len(match.pattern_data)].close
             future_prices  == Vals(Col(future_data.bars, "close"))
             future_pattern == [i \in DOMAIN future_prices |->
                                   PercentChange(future_prices[i], start_price)]
             total_change   == future_pattern[Len(future_pattern)]
         IN  [none            |-> FALSE,
              match           |-> match,
              future_data     |-> future_data.bars,
              future_pattern  |-> future_pattern,
              prediction_bars |-> Len(future_pattern),
              price_change    |-> total_change,
              max_gain        |-> MaxSeq(future_pattern),
              max_loss        |-> MinSeq(future_pattern),
              volatility      |-> IF Len(future_pattern) > 1
                                  THEN StdPopulation(future_pattern) ELSE 0,
              trend_direction |-> TrendDirection(total_change)]

\* p.match.similarity_score for each prediction
ScoresOf(preds) == [i \in DOMAIN preds |-> preds[i].match.similarity_score]

\* a divisor that counts the predictions instead of summing their scores
WeightSumByCount(preds) == Len(preds) * Q

\* np.sum(weights) over the similarity scores
WeightSum(preds) == SumSeq(ScoresOf(preds))

\* np.sum([stat * w ...]) with w = score / np.sum(scores): the numerator of
\* the sum, over the denominator WeightSum
WeightedSum(preds, stat) ==
    SumSeq([i \in DOMAIN preds |-> preds[i][stat] * preds[i].match.similarity_score])

\* the keys of trend_weights, in the order the loop inserts them
RECURSIVE TrendKeys(_)
TrendKeys(preds) ==
    IF preds = <<>> THEN <<>>
    ELSE LET front == TrendKeys(SubSeq(preds, 1, Len(preds) - 1))
             trend == preds[Len(preds)].trend_direction
         IN  IF \E i \in DOMAIN front : front[i] = trend THEN front
             ELSE Append(front, trend)

\* a tally that counts the predictions of a class instead of their scores
TrendWeightByCount(preds, trend) ==
    SumSeq([i \in DOMAIN preds |->
               IF preds[i].trend_direction = trend THEN Q ELSE 0])

\* trend_weights[trend] after the loop
TrendWeight(preds, trend) ==
    SumSeq([i \in DOMAIN preds |->
               IF preds[i].trend_direction = trend
               THEN preds[i].match.similarity_score ELSE 0])

\* max(d, key=d.get): the first key, in insertion order, whose value is largest
MaxKey(keys, values) ==
    keys[CHOOSE i \in DOMAIN keys :
            /\ \A j \in DOMAIN keys : values[j] <= values[i]
            /\ \A j \in 1..(i - 1) : values[j] < values[i]]

\* the figures of generate_prediction_report.  weights[i] and the four
\* weighted statistics are numerators over weight_sum; trend_probabilities
\* are numerators, in percent, over total_weight.  With a score sum of zero
\* the divisions give NaN or raise ZeroDivisionError: status "undefined".
generate_prediction_report(preds) ==
    IF preds = <<>> THEN [NoReport EXCEPT !.status = "empty"]
    ELSE IF WeightSum(preds) = 0 THEN [NoReport EXCEPT !.status = "undefined"]
    ELSE LET keys          == TrendKeys(preds)
             trend_weights == [k \in DOMAIN keys |-> TrendWeight(preds, keys[k])]
             total_weight  == SumSeq(ScoresOf(preds))
             probabilities == [k \in DOMAIN keys |-> trend_weights[k] * 100]
         IN  [status              |-> "ok",
              weights             |-> ScoresOf(preds),
              weight_sum          |-> WeightSum(preds),
              weighted_change     |-> WeightedSum(preds, "price_change"),
              weighted_max_gain   |-> WeightedSum(preds, "max_gain"),
              weighted_max_loss   |-> WeightedSum(preds, "max_loss"),
              weighted_volatility |-> WeightedSum(preds, "volatility"),
              trend_keys          |-> keys,
              trend_weights       |-> trend_weights,
              total_weight        |-> total_weight,
              trend_probabilities |-> probabilities,
              most_likely_trend   |-> MaxKey(keys, probabilities)]

\* the ranked matches (of RealPatternMatcher, which keeps pattern_data),
\* what get_data will do for each, and the requested bar count
PredInit ==
    /\ \E n \in 0..MaxMatches :
          \E sc \in [1..n -> Scores] :
             \E os \in [1..n -> Outcomes] :
                /\ matches = [i \in 1..n |->
                                 [symbol           |-> i,
                                  similarity_score |-> sc[i],
                                  end_time         |-> SilverBars,
                                  pattern_data     |-> PatternBars(i)]]
                /\ history = [i \in 1..n |-> Fetched(i, os[i])]
    /\ future_bars \in FutureBarCounts
    /\ pred_pc = "loop"
    /\ pred_idx = 1
    /\ fetched = <<>>
    /\ predictions = <<>>
    /\ report = NoReport

\* one pass of predict_future_trends' loop
PredictMatch ==
    /\ pred_pc = "loop"
    /\ pred_idx <= Len(matches)
    /\ LET match       == matches[pred_idx]
           future_data == get_future_data_after_match(match, history[pred_idx],
                                                      future_bars)
           prediction  == IF future_data.none THEN NoPrediction
                          ELSE analyze_future_pattern(future_data, match)
       IN  /\ fetched' = Append(fetched, future_data)
           /\ predictions' = IF prediction.none THEN predictions
                             ELSE Append(predictions, prediction)
    /\ pred_idx' = pred_idx + 1
    /\ UNCHANGED <<matches, history, future_bars, pred_pc, report>>
    /\ UNCHANGED <<scanVars, scoreVars, metricVars, moreVars>>

\* after the loop: return predictions
PredictReturn ==
    /\ pred_pc = "loop"
    /\ pred_idx > Len(matches)
    /\ pred_pc' = "predicted"
    /\ UNCHANGED <<matches, history, future_bars, pred_idx, fetched, predictions, report>>
    /\ UNCHANGED <<scanVars, scoreVars, metricVars, moreVars>>

\* generate_prediction_report on the returned predictions
GenerateReport ==
    /\ pred_pc = "predicted"
    /\ report' = generate_prediction_report(predictions)
    /\ pred_pc' = "reported"
    /\ UNCHANGED <<matches, history, future_bars, pred_idx, fetched, predictions>>
    /\ UNCHANGED <<scanVars, scoreVars, metricVars, moreVars>>

InitPredictor == PredInit /\ ScanIdle /\ ScoreIdle /\ MetricIdle /\ MoreIdle

NextPredictor == PredictMatch \/ PredictReturn \/ GenerateReport

SpecPredictor == InitPredictor /\ [][NextPredictor]_vars

\* ----------------------------------------------------------------------
\* the normalizers and the metrics on their own, on two windows of the
\* same length
\* ----------------------------------------------------------------------
\* five bars closing at k * 100, k * 101, ..., k * 104 from time t0 on
ExampleBars(k, t0) == [i \in 1..5 |-> Bar(t0 + i - 1, k * (99 + i), 0)]

\* the windows: every series of 1 .. SilverBars bars, and the rising
\* five-bar window with its copy at twice the price
MetricWindows ==
    UNION {SeriesOfLen(n, 1) : n \in 1..SilverBars}
    \cup {ExampleBars(1, 1), ExampleBars(2, 1)}

MetricInit ==
    /\ metric_a \in MetricWindows
    /\ metric_b \in {w \in MetricWindows : Len(w) = Len(metric_a)}
    /\ metric_pc = "input"
    /\ metric_out = NoOutput

\* a window against itself: RealPatternMatcher's Euclidean and DTW on the
\* percent-change pattern, ImprovedPatternMatcher's shape on the z-score
CompareSelf ==
    /\ metric_pc = "input"
    /\ LET pattern == normalize_price_series(Col(metric_a, "close"))
           zscore  == normalize_pattern_zscore(Col(metric_a, "close"))
       IN  metric_out' =
               [step         |-> "self",
                euclidean    |-> RealEuclideanSimilarity(pattern, pattern),
                dtw_distance |-> calculate_dtw_distance(pattern, pattern),
                dtw          |-> RealDtwSimilarity(pattern, pattern),
                shape        |-> calculate_shape_similarity(zscore, zscore)]
    /\ metric_pc' = "self"
    /\ UNCHANGED <<metric_a, metric_b>>
    /\ UNCHANGED <<scanVars, scoreVars, predVars, moreVars>>

\* every metric of the three matchers on the windows x and y, in this order.
\* The feature metrics are taken on windows of at least three bars: below
\* that the features themselves are undefined (the std of one return).
AllMetrics(x, y) ==
    LET p1 == normalize_price_series(Col(x, "close"))
        p2 == normalize_price_series(Col(y, "close"))
        z1 == normalize_pattern_zscore(Col(x, "close"))
        z2 == normalize_pattern_zscore(Col(y, "close"))
        s1 == extract_price_pattern(x)
        s2 == extract_price_pattern(y)
    IN  [real         |-> calculate_combined_similarity(p1, p2),
         dtw_distance |-> calculate_dtw_distance(p1, p2),
         shape        |-> calculate_shape_similarity(z1, z2),
         trend        |-> IF Len(x) < 3 THEN 0
                          ELSE calculate_trend_similarity(extract_pattern_features(x),
                                                          extract_pattern_features(y)),
         volatility   |-> IF Len(x) < 3 THEN 0
                          ELSE calculate_volatility_similarity(extract_pattern_features(x),
                                                               extract_pattern_features(y)),
         silver       |-> <<calculate_euclidean_similarity(s1, s2),
                            SilverCosineSimilarity(s1, s2),
                            calculate_pattern_correlation(s1, s2),
                            SilverDtwSimilarity(s1, s2),
                            DtwCost(Vals(s1), Vals(s2))>>]

\* the two windows compared in both directions
ComparePair ==
    /\ metric_pc = "input"
    /\ metric_out' = [step |-> "pair",
                      ab   |-> AllMetrics(metric_a, metric_b),
                      ba   |-> AllMetrics(metric_b, metric_a)]
    /\ metric_pc' = "pair"
    /\ UNCHANGED <<metric_a, metric_b>>
    /\ UNCHANGED <<scanVars, scoreVars, predVars, moreVars>>

\* extract_pattern_features on a window of at least three bars
ExtractFeatures ==
    /\ metric_pc = "input"
    /\ Len(metric_a) >= 3
    /\ metric_out' = [step |-> "features", features |-> extract_pattern_features(metric_a)]
    /\ metric_pc' = "features"
    /\ UNCHANGED <<metric_a, metric_b>>
    /\ UNCHANGED <<scanVars, scoreVars, predVars, moreVars>>

\* an array as a Series with a default index
AsSeries(xs) == [i \in DOMAIN xs |-> [t |-> i - 1, v |-> xs[i]]]

\* the DTW code of RealPatternMatcher and of SilverPatternMatcher on the same
\* two sequences: the percent-change patterns of the windows or their closes
CompareDtw ==
    /\ metric_pc = "input"
    /\ \E closes \in BOOLEAN :
          LET a == IF closes THEN Vals(Col(metric_a, "close"))
                   ELSE normalize_price_series(Col(metric_a, "close"))
              b == IF closes THEN Vals(Col(metric_b, "close"))
                   ELSE normalize_price_series(Col(metric_b, "close"))
          IN  metric_out' = [step          |-> "dtw",
                             a             |-> a,
                             b             |-> b,
                             real_distance |-> calculate_dtw_distance(a, b),
                             real          |-> RealDtwSimilarity(a, b),
                             silver        |-> SilverDtwSimilarity(AsSeries(a), AsSeries(b))]
    /\ metric_pc' = "dtw"
    /\ UNCHANGED <<metric_a, metric_b>>
    /\ UNCHANGED <<scanVars, scoreVars, predVars, moreVars>>

\* the window w with every timestamp moved by dt
Shifted(w, dt) == [i \in DOMAIN w |-> [w[i] EXCEPT !.t = @ + dt]]

\* find_similar_patterns of both scanners with metric_a as the reference and
\* metric_b as the candidate data, which lies over the reference's own
\* timestamps or right before them; RealPatternMatcher's combined
\* similarity of the two percent-change patterns beside them
ScanWindow ==
    /\ metric_pc = "input"
    /\ Len(metric_a) >= 3
    /\ \E dt \in {0, -Len(metric_a)} :
          LET target_data == Shifted(metric_b, dt)
          IN  metric_out' =
                  [step     |-> "scan",
                   shift    |-> dt,
                   improved |-> ImprovedFindSimilarPatterns(
                                    target_data,
                                    normalize_pattern_zscore(Col(metric_a, "close")),
                                    extract_pattern_features(metric_a), 1, Len(metric_a)),
                   silver   |-> SilverFindSimilarPatterns(
                                    target_data, extract_price_pattern(metric_a),
                                    1, Len(metric_a)),
                   real     |-> calculate_combined_similarity(
                                    normalize_price_series(Col(metric_a, "close")),
                                    normalize_price_series(Col(target_data, "close")))]
    /\ metric_pc' = "scan"
    /\ UNCHANGED <<metric_a, metric_b>>
    /\ UNCHANGED <<scanVars, scoreVars, predVars, moreVars>>

\* each normalizer on the closes of metric_a (the z-score on those of
\* metric_b as well); the z-score and min-max values are in 1/Q units, the
\* percent changes in whole percent
Normalize ==
    /\ metric_pc = "input"
    /\ metric_out' =
           [step     |-> "normalize",
            zscore   |-> Vals(normalize_pattern_zscore(Col(metric_a, "close"))),
            zscore_b |-> Vals(normalize_pattern_zscore(Col(metric_b, "close"))),
            minmax   |-> Vals(normalize_pattern_minmax(Col(metric_a, "close"))),
            percent  |-> normalize_price_series(Col(metric_a, "close")),
            silver   |-> Vals(normalize_prices(Col(metric_a, "close")))]
    /\ metric_pc' = "normalize"
    /\ UNCHANGED <<metric_a, metric_b>>
    /\ UNCHANGED <<scanVars, scoreVars, predVars, moreVars>>

\* the window w with the close of its first bar set to 0
ZeroFirst(w) == [i \in DOMAIN w |-> IF i = 1 THEN [w[i] EXCEPT !.close = 0] ELSE w[i]]

\* similarity_score of the one window window_data, whose closes are positive
\* except possibly the first, as ImprovedPatternMatcher.find_similar_patterns
\* computes it.  With a first close of 0, extract_pattern_features divides
\* by close_prices.iloc[0]: numpy gives inf for total_return, max_gain and
\* the first return without raising, the std of returns with an inf is NaN,
\* so vol_sim is NaN, the weighted sum is NaN, and the fallback's
\* comparisons with NaN are false.
ImprovedWindowScore(silver_pattern, silver_features, window_data) ==
    IF window_data[1].close = 0 THEN NaN
    ELSE Num(ImprovedFindSimilarPatterns(window_data, silver_pattern, silver_features,
                                         1, Len(window_data))[1].similarity_score)

\* the same for SilverPatternMatcher.  With a first close of 0,
\* normalize_prices divides by first_price: the pattern is NaN at the first
\* place and inf after it, without raising.  Its norm and its dot product
\* with the reference are NaN, so calculate_cosine_similarity returns NaN
\* unless the reference's own norm is 0 (it then returns 0.0); Euclidean,
\* correlation and DTW come out as 0 (max(0, -inf), isna, max(0, -inf)).
SilverWindowScore(silver_pattern, window_data) ==
    IF window_data[1].close = 0
    THEN IF GcdSeq(Vals(silver_pattern)) = 0 THEN Num(0) ELSE NaN
    ELSE Num(SilverFindSimilarPatterns(window_data, silver_pattern,
                                       1, Len(window_data))[1].similarity_score)

\* find_similar_patterns of both scanners with metric_a as the reference, on
\* candidate data made of metric_b, as it is or with a first close of 0,
\* followed by metric_b once more: the score of each window in scan order
ScanDegenerate ==
    /\ metric_pc = "input"
    /\ Len(metric_a) >= 3
    /\ \E zero \in BOOLEAN :
          LET L           == Len(metric_a)
              target_data == (IF zero THEN ZeroFirst(metric_b) ELSE metric_b)
                             \o Shifted(metric_b, L)
              Window(k)   == ILoc(target_data, k - 1, k - 1 + L)
          IN  metric_out' =
                  [step     |-> "degenerate",
                   data     |-> target_data,
                   improved |-> [k \in 1..(L + 1) |->
                                   ImprovedWindowScore(
                                       normalize_pattern_zscore(Col(metric_a, "close")),
                                       extract_pattern_features(metric_a), Window(k))],
                   silver   |-> [k \in 1..(L + 1) |->
                                   SilverWindowScore(extract_price_pattern(metric_a),
                                                     Window(k))]]
    /\ metric_pc' = "degenerate"
    /\ UNCHANGED <<metric_a, metric_b>>
    /\ UNCHANGED <<scanVars, scoreVars, predVars, moreVars>>

InitMetric == MetricInit /\ ScanIdle /\ ScoreIdle /\ PredIdle /\ MoreIdle

NextMetric ==
    \/ CompareSelf \/ ComparePair \/ ScanWindow \/ Normalize \/ ScanDegenerate
    \/ CompareDtw \/ ExtractFeatures

SpecMetric == InitMetric /\ [][NextMetric]_vars

\* ----------------------------------------------------------------------
\* core/silver_data_manager.py : DataManager, for one symbol and timeframe
\* ----------------------------------------------------------------------
\* most bars a file or an answer of MT5 holds
MaxFetch == 2

\* most calls followed
MaxCalls == 3

\* hours after which the age of the metadata is no longer followed
MaxAge == 2

\* a DataFrame of n bars; id tells the answers of MT5 apart (0: on disk at
\* the start)
Frame(id, n) == [exists |-> TRUE, id |-> id, n |-> n]

\* what MT5Client() and initialize() can do: succeed, or raise in either
ConnectOutcomes == {"ok", "constructor raises", "initialize raises"}

\* what get_rates can do: raise (-1), or return so many bars
RatesOutcomes == (-1)..MaxFetch

\* connect_mt5: the value returned and the client afterwards
connect_mt5(client, ready, o) ==
    IF client = "None"
    THEN IF o = "constructor raises" THEN [ret |-> FALSE, client |-> "None", ready |-> FALSE]
         ELSE IF o = "initialize raises"
              THEN [ret |-> FALSE, client |-> "held", ready |-> FALSE]
         ELSE [ret |-> TRUE, client |-> "held", ready |-> TRUE]
    ELSE [ret |-> TRUE, client |-> client, ready |-> ready]

\* disconnect_mt5: the client afterwards; a shutdown that raises leaves the
\* client held and the connection as it was
disconnect_mt5(client, ready, shutdown_raises) ==
    IF client = "None" THEN [client |-> client, ready |-> ready]
    ELSE IF shutdown_raises THEN [client |-> client, ready |-> ready]
    ELSE [client |-> "None", ready |-> FALSE]

\* fetch_from_mt5: the data or None, and the client afterwards.  get_rates
\* on a client that is not initialized raises; an empty answer gives None.
fetch_from_mt5(client, ready, count, id, o, g) ==
    LET c == connect_mt5(client, ready, o)
    IN  [client |-> c.client, ready |-> c.ready,
         data |-> IF ~c.ret THEN NoFile
                  ELSE IF ~c.ready \/ g < 0 THEN NoFile
                  ELSE IF g = 0 THEN NoFile
                  ELSE Frame(id, Min2(g, count))]

\* the freshness test with the limit itself counted as fresh
IsDataFreshInclusive(age, max_age_hours) == age >= 0 /\ age <= max_age_hours

\* is_data_fresh: the metadata exists and its age is below max_age_hours
is_data_fresh(age, max_age_hours) == age >= 0 /\ age < max_age_hours

\* get_data: what it returns and does, from the state before the call and
\* the outcomes of the client (o, g) and of the write (write_ok).
\* save_data_to_csv writes the CSV and the metadata with last_update = now;
\* a failed write is taken to leave both files as they were.
get_data(count, force_refresh, max_age_hours, id, o, g, write_ok) ==
    LET f     == fetch_from_mt5(mt5_client, client_ready, count, id, o, g)
        local == csv
        Kept(returned, contacted) ==
            [returned |-> returned, contacted |-> contacted, saved |-> "not called",
             fetched |-> IF contacted THEN f.data ELSE NoFile,
             csv |-> csv, meta_age |-> meta_age,
             client |-> IF contacted THEN f.client ELSE mt5_client,
             ready |-> IF contacted THEN f.ready ELSE client_ready]
        Saved(data) ==
            [returned |-> data, contacted |-> TRUE,
             saved |-> IF write_ok THEN "written" ELSE "failed",
             fetched |-> f.data,
             csv |-> IF write_ok THEN data ELSE csv,
             meta_age |-> IF write_ok THEN 0 ELSE meta_age,
             client |-> f.client, ready |-> f.ready]
    IN  IF force_refresh \/ ~is_data_fresh(meta_age, max_age_hours)
        THEN IF f.data.exists THEN Saved(f.data) ELSE Kept(local, TRUE)
        ELSE IF local.exists /\ local.n < count
             THEN IF f.data.exists /\ f.data.n > local.n THEN Saved(f.data)
                  ELSE Kept(local, TRUE)
             ELSE Kept(local, FALSE)

DmInit ==
    /\ mt5_client = "None"
    /\ client_ready = FALSE
    /\ csv \in {NoFile} \cup {Frame(0, n) : n \in 1..MaxFetch}
    /\ meta_age \in (-1)..MaxAge
    /\ dm_calls = 0
    /\ dm_last = NoCall

\* a call of get_data
GetData ==
    /\ dm_calls < MaxCalls
    /\ \E count \in 1..MaxFetch, force_refresh \in BOOLEAN, max_age_hours \in 1..MaxAge,
          o \in ConnectOutcomes, g \in RatesOutcomes, write_ok \in BOOLEAN :
          LET r == get_data(count, force_refresh, max_age_hours, dm_calls + 1, o, g, write_ok)
          IN  /\ mt5_client' = r.client
              /\ client_ready' = r.ready
              /\ csv' = r.csv
              /\ meta_age' = r.meta_age
              /\ dm_last' = [op |-> "get_data", count |-> count,
                             force_refresh |-> force_refresh,
                             max_age_hours |-> max_age_hours,
                             csv_before |-> csv, age_before |-> meta_age,
                             csv_after |-> r.csv, age_after |-> r.meta_age,
                             contacted |-> r.contacted, fetched |-> r.fetched,
                             saved |-> r.saved, returned |-> r.returned]
    /\ dm_calls' = dm_calls + 1
    /\ UNCHANGED <<scanVars, scoreVars, predVars, metricVars, fbVars, menuVars, bestVars>>

\* a call of connect_mt5
ConnectMt5 ==
    /\ dm_calls < MaxCalls
    /\ \E o \in ConnectOutcomes :
          LET c == connect_mt5(mt5_client, client_ready, o)
          IN  /\ mt5_client' = c.client
              /\ client_ready' = c.ready
              /\ dm_last' = [op |-> "connect_mt5", returned |-> c.ret,
                             initialized |-> mt5_client = "None" /\ o = "ok"]
    /\ dm_calls' = dm_calls + 1
    /\ UNCHANGED <<csv, meta_age>>
    /\ UNCHANGED <<scanVars, scoreVars, predVars, metricVars, fbVars, menuVars, bestVars>>

\* a call of disconnect_mt5
DisconnectMt5 ==
    /\ dm_calls < MaxCalls
    /\ \E shutdown_raises \in BOOLEAN :
          LET c == disconnect_mt5(mt5_client, client_ready, shutdown_raises)
          IN  /\ mt5_client' = c.client
              /\ client_ready' = c.ready
    /\ dm_last' = [op |-> "disconnect_mt5"]
    /\ dm_calls' = dm_calls + 1
    /\ UNCHANGED <<csv, meta_age>>
    /\ UNCHANGED <<scanVars, scoreVars, predVars, metricVars, fbVars, menuVars, bestVars>>

\* an hour passes between two calls
Elapse ==
    /\ meta_age >= 0
    /\ meta_age < MaxAge
    /\ meta_age' = meta_age + 1
    /\ UNCHANGED <<mt5_client, client_ready, csv, dm_calls, dm_last>>
    /\ UNCHANGED <<scanVars, scoreVars, predVars, metricVars, fbVars, menuVars, bestVars>>

InitData ==
    DmInit /\ ScanIdle /\ ScoreIdle /\ PredIdle /\ MetricIdle /\ FbIdle /\ MenuIdle /\ BestIdle

NextData == GetData \/ ConnectMt5 \/ DisconnectMt5 \/ Elapse

SpecData == InitData /\ [][NextData]_vars

\* ----------------------------------------------------------------------
\* core/pattern_future_predictor.py : the menu loop of main
\* ----------------------------------------------------------------------
\* most option-1 runs followed
MaxRuns == 3

\* the list predict_future_trends returns in run r when k matches have bars
\* after them
RunPredictions(r, k) == [i \in 1..k |-> [run |-> r, match |-> i]]

\* what a pass of the loop leaves behind: the choice, what happened, and the
\* list handed to the chart or the report
Handled(choice, outcome, presented) ==
    [op |-> choice, outcome |-> outcome, presented |-> presented]

MenuInit ==
    /\ latest_predictions = NotSet
    /\ menu_runs = 0
    /\ menu_last = Handled("start", "menu", <<>>)

\* the loop is waiting for a choice
AtMenu == menu_last.op \in {"start", "1", "2", "3", "4", "invalid"}

\* choice '1': run_pattern_matching, then (if it found matches) the count is
\* read and predict_future_trends runs; a non-empty list is reported and
\* stored in globals().  A count that is no integer raises out of the loop.
Option1 ==
    /\ AtMenu
    /\ menu_runs < MaxRuns
    /\ menu_runs' = menu_runs + 1
    /\ \E found \in BOOLEAN, input_ok \in BOOLEAN, k \in 0..MaxMatches :
          IF ~found
          THEN /\ menu_last' = Handled("1", "no matches", <<>>)
               /\ UNCHANGED latest_predictions
          ELSE IF ~input_ok
          THEN /\ menu_last' = Handled("error", "exit", <<>>)
               /\ UNCHANGED latest_predictions
          ELSE IF RunPredictions(menu_runs + 1, k) = <<>>
          THEN /\ menu_last' = Handled("1", "no predictions", <<>>)
               /\ UNCHANGED latest_predictions
          ELSE /\ menu_last' = Handled("1", "reported", RunPredictions(menu_runs + 1, k))
               /\ latest_predictions' =
                      [set |-> TRUE, list |-> RunPredictions(menu_runs + 1, k)]
    /\ UNCHANGED <<scanVars, scoreVars, predVars, metricVars, fbVars, dmVars, bestVars>>

\* choices '3' (chart) and '4' (report): refused while 'latest_predictions'
\* is not in globals(), else called on globals()['latest_predictions']
Option3Or4 ==
    /\ AtMenu
    /\ \E choice \in {"3", "4"} :
          menu_last' = IF ~latest_predictions.set THEN Handled(choice, "refused", <<>>)
                       ELSE Handled(choice, "presented", latest_predictions.list)
    /\ UNCHANGED <<latest_predictions, menu_runs>>
    /\ UNCHANGED <<scanVars, scoreVars, predVars, metricVars, fbVars, dmVars, bestVars>>

\* choice '2', an invalid choice, and '5', which leaves the loop
OtherChoice ==
    /\ AtMenu
    /\ \E choice \in {"2", "invalid", "5"} :
          menu_last' = Handled(choice, IF choice = "5" THEN "exit" ELSE "message", <<>>)
    /\ UNCHANGED <<latest_predictions, menu_runs>>
    /\ UNCHANGED <<scanVars, scoreVars, predVars, metricVars, fbVars, dmVars, bestVars>>

InitMenu ==
    MenuInit /\ ScanIdle /\ ScoreIdle /\ PredIdle /\ MetricIdle /\ FbIdle /\ DmIdle /\ BestIdle

NextMenu == Option1 \/ Option3Or4 \/ OtherChoice

SpecMenu == InitMenu /\ [][NextMenu]_vars

\* ----------------------------------------------------------------------
\* visualizers/real_pattern_visualizer.py : find_best_matches
\* ----------------------------------------------------------------------
\* a window_size whose tenth is above one bar
CoarseSize == 20

\* longest series scanned is this many bars above window_size
MaxSlack == 3

\* n bars from time 1 on, flat but for bar k (none for k = 0) one level up
BumpBars(n, k) == [i \in 1..n |-> Bar(i, BasePrice + (IF i = k THEN 1 ELSE 0), 0)]

\* silver_pattern as run_pattern_matching builds it
PatternOf(bars) == normalize_price_series(Col(bars, "close"))

\* the calls: every reference and series with window_size = SilverBars, a
\* catalogue of flat series with one bump with window_size = CoarseSize
BestCalls ==
    {[size |-> SilverBars, ref |-> PatternOf(r), data |-> b] :
        r \in {x \in SeriesOfLen(SilverBars, 1) : x[1].high = x[1].close},
        b \in UNION {SeriesOfLen(n, 1) : n \in (SilverBars - 1)..MaxBars}}
    \cup
    {[size |-> CoarseSize, ref |-> PatternOf(r), data |-> BumpBars(n, k)] :
        r \in {RefBars(CoarseSize, CoarseSize), BumpBars(CoarseSize, CoarseSize \div 2)},
        n \in (CoarseSize - 1)..(CoarseSize + MaxSlack),
        k \in 0..(CoarseSize + MaxSlack)}

BestInit ==
    /\ \E c \in BestCalls :
          /\ best_size = c.size
          /\ best_ref = c.ref
          /\ best_data = c.data
    /\ best_i = 0
    /\ best_similarity = -Q
    /\ best_match = NoMatch
    /\ scored = <<>>
    /\ best_pc = "call"
    /\ best_out = <<>>

\* a step of one bar: the variant of StepOf that scans every offset
StepEveryBar(window_size) == 1

\* step = max(1, window_size // 10)
StepOf(window_size) == Max2(1, window_size \div 10)

\* the window at offset i and its score against silver_pattern
WindowAt(i) == ILoc(best_data, i, i + best_size)

ScoreAt(i) == calculate_combined_similarity(best_ref, PatternOf(WindowAt(i)))

\* the call up to the loop: [] at once for a series shorter than the window
BestEnter ==
    /\ best_pc = "call"
    /\ IF Len(best_data) < best_size
       THEN /\ best_pc' = "returned"
            /\ best_out' = <<>>
       ELSE /\ best_pc' = "loop"
            /\ UNCHANGED best_out
    /\ best_i' = 0
    /\ best_similarity' = -Q
    /\ best_match' = NoMatch
    /\ UNCHANGED <<best_ref, best_data, best_size, scored>>
    /\ UNCHANGED <<scanVars, scoreVars, predVars, metricVars, fbVars, dmVars, menuVars>>

\* one pass of the for loop: score the window at i, keep it if it beats
\* the best so far, move i on by step
BestScore ==
    /\ best_pc = "loop"
    /\ best_i <= Len(best_data) - best_size
    /\ LET window_data == WindowAt(best_i)
           details     == ScoreAt(best_i)
           similarity  == details.combined
       IN  IF similarity > best_similarity
           THEN /\ best_similarity' = similarity
                /\ best_match' = [none               |-> FALSE,
                                  similarity_score   |-> similarity,
                                  start_index        |-> best_i,
                                  end_index          |-> best_i + best_size - 1,
                                  start_time         |-> window_data[1].t,
                                  end_time           |-> window_data[Len(window_data)].t,
                                  pattern_data       |-> window_data,
                                  similarity_details |-> details]
           ELSE UNCHANGED <<best_similarity, best_match>>
    /\ scored' = Append(scored, best_i)
    /\ best_i' = best_i + StepOf(best_size)
    /\ UNCHANGED <<best_ref, best_data, best_size, best_pc, best_out>>
    /\ UNCHANGED <<scanVars, scoreVars, predVars, metricVars, fbVars, dmVars, menuVars>>

\* the range is exhausted: the best match, if any, is the whole result
BestReturn ==
    /\ best_pc = "loop"
    /\ best_i > Len(best_data) - best_size
    /\ best_out' = IF best_match.none THEN <<>> ELSE <<best_match>>
    /\ best_pc' = "returned"
    /\ UNCHANGED <<best_ref, best_data, best_size, best_i, best_similarity, best_match, scored>>
    /\ UNCHANGED <<scanVars, scoreVars, predVars, metricVars, fbVars, dmVars, menuVars>>

InitBest ==
    BestInit /\ ScanIdle /\ ScoreIdle /\ PredIdle /\ MetricIdle /\ FbIdle /\ DmIdle /\ MenuIdle

NextBest == BestEnter \/ BestScore \/ BestReturn

SpecBest == InitBest /\ [][NextBest]_vars

\* ----------------------------------------------------------------------
\* properties of the scanners
\* ----------------------------------------------------------------------
NonIncreasing(lst) ==
    \A i \in 1..(Len(lst) - 1) : lst[i].similarity_score >= lst[i + 1].similarity_score

Range(lst) == {lst[i] : i \in DOMAIN lst}

\* the scanned windows that pass the threshold
Retained == {m \in Range(windows) : m.similarity_score >= min_similarity}

\* C1: whatever integer top_n is, the list run_pattern_matching returns is in
\* non-increasing order of similarity_score and holds at most top_n matches
\* (none at all when top_n is zero or negative).
C1_SortedAtMostTopN ==
    pc = "done" => /\ NonIncreasing(result)
                   /\ Len(result) <= Max2(top_n, 0)

\* C2: run_pattern_matching returns exactly the first top_n elements of the
\* descending ordering of the scanned windows that score at least
\* min_similarity: every returned match is such a window, the list is in
\* descending order, it has min(top_n, number retained) elements, and no
\* retained window left out outranks a returned one.
C2_ExactlyFirstTopNRetained ==
    pc = "done" =>
        /\ NonIncreasing(result)
        /\ \A i \in DOMAIN result : result[i] \in Retained
        /\ \A i, j \in DOMAIN result : i # j => result[i] # result[j]
        /\ Len(result) = Min2(Max2(top_n, 0), Cardinality(Retained))
        /\ \A w \in Retained \ Range(result) :
              \A i \in DOMAIN result : w.similarity_score <= result[i].similarity_score

\* C3: in ImprovedPatternMatcher.run_pattern_matching no scanned window and
\* no returned match ends at or after the first timestamp of the reference
\* window.
C3_NoMatchAtOrAfterReference ==
    matcher = "improved" =>
        /\ \A i \in DOMAIN windows : windows[i].end_time < SilverData[1].t
        /\ \A i \in DOMAIN result : result[i].end_time < SilverData[1].t

\* a finished improved scan that returned a match from a candidate series
\* which has bars at or after the reference's first timestamp
C3_Witness ==
    /\ matcher = "improved"
    /\ pc = "done"
    /\ \E i \in DOMAIN result :
          \E k \in DOMAIN target[result[i].symbol].bars :
              target[result[i].symbol].bars[k].t >= SilverData[1].t

\* C4: the similarity_score of every window ImprovedPatternMatcher scores is
\* at least shape*0.5 + trend*0.3 + volatility*0.2 of its own sub-scores.
C4_FallbackNeverLowers ==
    score_pc = "improved" =>
        \A i \in DOMAIN score_out :
            score_out[i].similarity_score >=
                Quot(5 * score_out[i].subs[1] + 3 * score_out[i].subs[2]
                     + 2 * score_out[i].subs[3], 10)

\* a scored window whose shape similarity is below 0.3 and whose score the
\* fallback raised above the plain weighted score
C4_Witness ==
    /\ score_pc = "improved"
    /\ \E i \in DOMAIN score_out :
          /\ 10 * score_out[i].subs[1] < 3 * Q
          /\ score_out[i].similarity_score >
                Quot(5 * score_out[i].subs[1] + 3 * score_out[i].subs[2]
                     + 2 * score_out[i].subs[3], 10)

\* ----------------------------------------------------------------------
\* properties of the outcome projector
\* ----------------------------------------------------------------------
\* the bars of matches[i]'s series strictly after the match, in series order
Subsequent(i) ==
    IF history[i].outcome = "data"
    THEN SelectSeq(history[i].bars, LAMBDA b : b.t > matches[i].end_time)
    ELSE <<>>

\* C5: whatever integer future_bars is, get_future_data_after_match returns
\* exactly the first min(available, future_bars) bars of the series that lie
\* strictly after match.end_time, in series order (no bars when that
\* minimum is zero or negative), available being the number of such bars.
C5_FirstBarsAfterMatch ==
    \A i \in DOMAIN fetched :
        fetched[i].bars =
            SubSeq(Subsequent(i), 1, Max2(Min2(Len(Subsequent(i)), future_bars), 0))

C7_EqualScoresGiveArithmeticMean ==
    report.status = "ok" =>
        LET n == Len(predictions)
            S == SumSeq([i \in DOMAIN predictions |->
                            predictions[i].match.similarity_score])
            Total(stat) == SumSeq([i \in DOMAIN predictions |-> predictions[i][stat]])
        IN  /\ \A i \in DOMAIN predictions :
                  report.weights[i] * S
                     = predictions[i].match.similarity_score * report.weight_sum
            /\ SumSeq(report.weights) = report.weight_sum
            /\ (\A i, j \in DOMAIN predictions :
                   predictions[i].match.similarity_score
                      = predictions[j].match.similarity_score)
               => /\ n * report.weighted_change = report.weight_sum * Total("price_change")
                  /\ n * report.weighted_max_gain = report.weight_sum * Total("max_gain")
                  /\ n * report.weighted_max_loss = report.weight_sum * Total("max_loss")
                  /\ n * report.weighted_volatility
                        = report.weight_sum * Total("volatility")

\* a report over two predictions of equal positive score whose final
\* changes differ
C7_Witness ==
    /\ report.status = "ok"
    /\ Len(predictions) = 2
    /\ predictions[1].match.similarity_score = predictions[2].match.similarity_score
    /\ predictions[1].price_change # predictions[2].price_change
    /\ predictions[1].volatility # predictions[2].volatility

TrendClasses == {"up", "down", "range"}

\* the summed similarity score of the predictions of one trend class
ClassScore(trend) ==
    SumSeq([i \in DOMAIN predictions |->
               IF predictions[i].trend_direction = trend
               THEN predictions[i].match.similarity_score ELSE 0])

\* C8: in a report, the classes listed are exactly the classes present, the
\* probability of each is its summed score over the sum of all scores, in
\* percent, the probabilities sum to 100, and the most likely class is one
\* whose summed score is maximal among all classes.
C8_TrendProbabilities ==
    report.status = "ok" =>
        LET S == SumSeq([i \in DOMAIN predictions |->
                            predictions[i].match.similarity_score])
        IN  /\ {report.trend_keys[k] : k \in DOMAIN report.trend_keys}
                  = {predictions[i].trend_direction : i \in DOMAIN predictions}
            /\ \A k, l \in DOMAIN report.trend_keys :
                  k # l => report.trend_keys[k] # report.trend_keys[l]
            /\ \A k \in DOMAIN report.trend_keys :
                  report.trend_probabilities[k] * S
                     = 100 * ClassScore(report.trend_keys[k]) * report.total_weight
            /\ SumSeq(report.trend_probabilities) = 100 * report.total_weight
            /\ \A c \in TrendClasses : ClassScore(report.most_likely_trend) >= ClassScore(c)

\* a report over two classes in which the most likely class is not the one
\* that was tallied first
C8_Witness ==
    /\ report.status = "ok"
    /\ Len(report.trend_keys) = 2
    /\ report.most_likely_trend = report.trend_keys[2]
    /\ ClassScore(report.trend_keys[1]) > 0

\* C9: every prediction has exactly one of the three classes: up iff the
\* last projected close is more than 2% above the matched window's last
\* close, down iff it is more than 2% below, range-bound otherwise, so a
\* change of exactly +2% or -2% is range-bound.
C9_TrendThresholdsStrict ==
    \A i \in DOMAIN predictions :
        LET p      == predictions[i]
            start  == p.match.pattern_data[Len(p.match.pattern_data)].close
            final  == p.future_data[Len(p.future_data)].close
            change == (final - start) * 100
        IN  /\ p.trend_direction \in TrendClasses
            /\ p.trend_direction = "up" <=> change > 2 * start
            /\ p.trend_direction = "down" <=> change < -2 * start
            /\ p.trend_direction = "range" <=> (change <= 2 * start /\ change >= -2 * start)

\* predictions of exactly +2% classified range-bound and of more than +2%
\* classified up, side by side
C9_Witness ==
    /\ \E i \in DOMAIN predictions :
          /\ predictions[i].price_change = 2 * Q
          /\ predictions[i].trend_direction = "range"
    /\ \E i \in DOMAIN predictions :
          /\ predictions[i].price_change > 2 * Q
          /\ predictions[i].trend_direction = "up"

\* ----------------------------------------------------------------------
\* properties of the similarity metrics
\* ----------------------------------------------------------------------
\* C10: every sub-score of every window either matcher scores (Euclidean,
\* cosine, correlation, DTW; shape correlation, trend, volatility) lies in
\* [0, 1], and so does the window's combined score.
C10_ScoresWithinUnitInterval ==
    \A i \in DOMAIN score_out :
        /\ \A k \in DOMAIN score_out[i].subs :
              score_out[i].subs[k] >= 0 /\ score_out[i].subs[k] <= Q
        /\ score_out[i].similarity_score >= 0
        /\ score_out[i].similarity_score <= Q

\* a window scored by SilverPatternMatcher whose cosine against the
\* reference is -1 (similarity 0) while its correlation similarity is 1
C10_Witness ==
    /\ score_pc = "silver"
    /\ \E i \in DOMAIN score_out :
          /\ score_out[i].subs[2] = 0
          /\ score_out[i].subs[3] = Q

\* the closes of a window
Closes(w) == Vals(Col(w, "close"))

\* a window all of whose closes are equal
Flat(w) == \A i, j \in DOMAIN w : w[i].close = w[j].close

\* C11 as stated: comparing any window against itself gives Euclidean
\* similarity 1.0, DTW dissimilarity 0 (similarity 1.0) and signed
\* correlation-shape similarity 1.0, a flat window included.
C11_SelfSimilarityAlwaysOne ==
    metric_pc = "self" =>
        /\ metric_out.euclidean = Q
        /\ metric_out.dtw_distance = 0
        /\ metric_out.dtw = Q
        /\ metric_out.shape = Q

\* C11: comparing any window against itself gives Euclidean similarity 1.0
\* and DTW dissimilarity 0 (similarity 1.0); the signed correlation-shape
\* similarity is 1.0 when the window has at least three points and is not
\* flat, and 0 when it is flat or shorter.
C11_SelfSimilarity ==
    metric_pc = "self" =>
        /\ metric_out.euclidean = Q
        /\ metric_out.dtw_distance = 0
        /\ metric_out.dtw = Q
        /\ metric_out.shape = IF Len(metric_a) >= 3 /\ ~Flat(metric_a) THEN Q ELSE 0

\* a window of three bars that is not flat, compared against itself
C11_Witness ==
    /\ metric_pc = "self"
    /\ Len(metric_a) = 3
    /\ ~Flat(metric_a)
    /\ metric_out.shape = Q
    /\ metric_out.dtw = Q

\* C12: every similarity metric is symmetric in its two arguments: for all
\* windows a and b of one length, each metric of (a, b) equals the metric
\* of (b, a), the DTW cost D[L][L] included.
C12_MetricsSymmetric ==
    metric_pc = "pair" => metric_out.ab = metric_out.ba

\* two different windows whose returns, slopes, DTW cost and correlation
\* all differ from those of a window compared with itself
C12_Witness ==
    /\ metric_pc = "pair"
    /\ Closes(metric_a) # Closes(metric_b)
    /\ Len(metric_a) >= 3
    /\ metric_out.ab.dtw_distance > 0
    /\ metric_out.ab.trend < Q
    /\ metric_out.ab.real.pearson > 0
    /\ metric_out.ab.real.pearson < Q

\* C13: when the candidate window is the reference scaled by 2 (closes
\* 100..104 against 200, 202, ..., 208), the Euclidean, DTW, correlation
\* and cosine similarities are all 1.0 and the combined score each scanner
\* gives the window is exactly 1.0.
C13_ScaledCopyScoresOne ==
    (/\ metric_pc = "scan"
     /\ metric_a = ExampleBars(1, 1)
     /\ metric_b = ExampleBars(2, 1)) =>
        /\ metric_out.real.euclidean = Q
        /\ metric_out.real.dtw = Q
        /\ metric_out.real.pearson = Q
        /\ metric_out.real.cosine = Q
        /\ metric_out.silver[1].subs = <<Q, Q, Q, Q>>
        /\ metric_out.silver[1].similarity_score = Q
        /\ metric_out.improved[1].similarity_score = Q

\* zs, in 1/Q units, equals the thousandths es to within one unit
NearThousandths(zs, es) ==
    /\ Len(zs) = Len(es)
    /\ \A i \in DOMAIN zs : Abs(1000 * zs[i] - Q * es[i]) <= 1000 + Q

\* zs has mean 0, and standard deviation 1 to within a tenth when its
\* summed squares are divided by dof
MeanZeroStdOne(zs, dof) ==
    /\ Abs(SumSeq(zs)) <= Len(zs)
    /\ 10 * Abs(SumSeq([i \in DOMAIN zs |-> zs[i] * zs[i]]) - dof * Q * Q) <= dof * Q * Q

\* C14 as stated: the z-score maps 100..104 and its copy at twice the price
\* both to [-1.414, -0.707, 0, 0.707, 1.414], the standard deviation being
\* the sum of squared deviations divided by L, and the output of a window
\* that is not flat has mean 0 and standard deviation 1 under that
\* convention.
C14_ZScorePopulationStd ==
    metric_pc = "normalize" =>
        /\ (metric_a = ExampleBars(1, 1) /\ metric_b = ExampleBars(2, 1)) =>
              /\ NearThousandths(metric_out.zscore, <<-1414, -707, 0, 707, 1414>>)
              /\ NearThousandths(metric_out.zscore_b, <<-1414, -707, 0, 707, 1414>>)
        /\ (Len(metric_a) >= 2 /\ ~Flat(metric_a)) =>
              MeanZeroStdOne(metric_out.zscore, Len(metric_a))

\* C14: the z-score maps 100..104 and its copy at twice the price both to
\* [-1.265, -0.632, 0, 0.632, 1.265], the standard deviation being the sum
\* of squared deviations divided by L - 1, and the output of a window that
\* is not flat has mean 0 and standard deviation 1 under that convention.
C14_ZScoreSampleStd ==
    metric_pc = "normalize" =>
        /\ (metric_a = ExampleBars(1, 1) /\ metric_b = ExampleBars(2, 1)) =>
              /\ NearThousandths(metric_out.zscore, <<-1265, -632, 0, 632, 1265>>)
              /\ NearThousandths(metric_out.zscore_b, <<-1265, -632, 0, 632, 1265>>)
              /\ metric_out.zscore = metric_out.zscore_b
        /\ (Len(metric_a) >= 2 /\ ~Flat(metric_a)) =>
              MeanZeroStdOne(metric_out.zscore, Len(metric_a) - 1)

\* the rising five-bar window and its copy at twice the price, normalized
C14_Witness ==
    /\ metric_pc = "normalize"
    /\ metric_a = ExampleBars(1, 1)
    /\ metric_b = ExampleBars(2, 1)
    /\ metric_out.zscore[1] < -Q
    /\ metric_out.zscore[3] = 0

\* C15: a degenerate input (flat closes, a first close of 0, a zero-norm
\* vector) never makes a scanner raise and never gives a window a NaN or
\* infinite similarity score; every window of the data, the later ones
\* included, is scored with a defined value.
C15_DegenerateInputScoresDefined ==
    metric_pc = "degenerate" =>
        LET total_windows == Len(metric_out.data) - Len(metric_a) + 1
        IN  /\ Len(metric_out.improved) = total_windows
            /\ Len(metric_out.silver) = total_windows
            /\ \A k \in 1..total_windows :
                  /\ ~metric_out.improved[k].nan
                  /\ ~metric_out.silver[k].nan
                  /\ metric_out.improved[k].v \in 0..Q
                  /\ metric_out.silver[k].v \in 0..Q

Zeros(n) == [i \in 1..n |-> 0]

\* C16: every normalizer returns a sequence of the input's length, and
\* zeros on degenerate input: the z-score all zeros when the standard
\* deviation is 0 (a single-point sequence included), min-max all zeros
\* when max = min, percent-change a single zero below two points.
C16_NormalizersKeepLengthZeroOnDegenerate ==
    metric_pc = "normalize" =>
        LET n == Len(metric_a)
        IN  /\ Len(metric_out.zscore) = n
            /\ Len(metric_out.minmax) = n
            /\ Len(metric_out.percent) = n
            /\ Len(metric_out.silver) = n
            /\ Flat(metric_a) => /\ metric_out.zscore = Zeros(n)
                                 /\ metric_out.minmax = Zeros(n)
            /\ n < 2 => /\ metric_out.percent = <<0>>
                        /\ metric_out.silver = <<0>>

\* ----------------------------------------------------------------------
\* properties of the scan loop
\* ----------------------------------------------------------------------
\* the reference data was there and long enough, so the loop ran
ReferenceFetched == ~silver_data_full.none /\ Len(silver_data_full.bars) >= SilverBars

\* candidate s is unavailable, raises, or is too short: fewer bars than the
\* window, and for ImprovedPatternMatcher fewer than the minimum viable
\* count or fewer than the window once the reference's period is excluded
Failing(s) ==
    \/ target[s].none
    \/ target[s].raises
    \/ Len(target[s].bars) < SilverBars
    \/ /\ matcher = "improved"
       /\ \/ Len(target[s].bars) < MinViableBars
          \/ Len(BarsBefore(target[s].bars, SilverData[1].t)) < SilverBars

\* what find_similar_patterns returns for candidate s scanned on its own
FoundAlone(s) ==
    IF matcher = "improved"
    THEN ImprovedFindSimilarPatterns(BarsBefore(target[s].bars, SilverData[1].t),
                                     normalize_pattern_zscore(Col(SilverData, "close")),
                                     extract_pattern_features(SilverData), s, SilverBars)
    ELSE SilverFindSimilarPatterns(target[s].bars,
                                   extract_price_pattern(silver_data_full.bars),
                                   s, SilverBars)

\* the matches of lst that lie in candidate s, in the order of lst
OfSeries(lst, s) == SelectSeq(lst, LAMBDA m : m.symbol = s)

\* C17: a candidate series that is unavailable, too short (fewer bars than
\* the window before or after the exclusion, or fewer than the minimum
\* viable count) or raises contributes no match, the matches of every other
\* candidate are exactly those of that candidate scanned on its own, and
\* the loop reaches the end of the candidate list.
C17_SkipAndContinue ==
    ((pc = "scan" \/ pc = "done") /\ ReferenceFetched) =>
        /\ \A t \in DOMAIN target :
              Failing(t) => /\ OfSeries(windows, t) = <<>>
                            /\ OfSeries(all_matches, t) = <<>>
                            /\ OfSeries(result, t) = <<>>
        /\ \A i \in 1..(idx - 1) :
              ~Failing(order[i]) =>
                  /\ OfSeries(windows, order[i]) = FoundAlone(order[i])
                  /\ OfSeries(all_matches, order[i])
                        = IF pc = "scan"
                          THEN FilterMatches(FoundAlone(order[i]), min_similarity)
                          ELSE SortDesc(FilterMatches(FoundAlone(order[i]),
                                                      min_similarity))
        /\ pc = "done" => idx = Len(target) + 1

\* a finished run whose first candidate raised and whose second candidate
\* gave retained matches
C17_Witness ==
    /\ pc = "done"
    /\ ReferenceFetched
    /\ target[1].raises
    /\ OfSeries(all_matches, 2) # <<>>
    /\ OfSeries(result, 2) # <<>>

\* C18: with a negative top_n the scan fails fast: no candidate series is
\* fetched or scanned and no result list is returned.
C18_NegativeTopNFailsFast ==
    top_n < 0 => /\ idx = 1
                 /\ windows = <<>>
                 /\ pc # "done"

\* the place of match m in the scan's encounter order
Encounter(m) == CHOOSE k \in DOMAIN windows : windows[k] = m

\* lst keeps its matches of equal score in encounter order
TiesInEncounterOrder(lst) ==
    \A i, j \in DOMAIN lst :
        (i < j /\ lst[i].similarity_score = lst[j].similarity_score)
            => Encounter(lst[i]) < Encounter(lst[j])

\* C19: matches of equal score appear in the ranked list and in the returned
\* list in scan encounter order, which is the candidate series in iteration
\* order and, within a series, ascending window start; the descending sort
\* never reorders matches of equal score.
C19_TiesKeepEncounterOrder ==
    pc = "done" =>
        /\ \A k, l \in DOMAIN windows :
              k < l => \/ windows[k].symbol < windows[l].symbol
                       \/ /\ windows[k].symbol = windows[l].symbol
                          /\ windows[k].start_index < windows[l].start_index
        /\ TiesInEncounterOrder(all_matches)
        /\ TiesInEncounterOrder(result)

\* a finished run that returned two matches of equal score, and ranked two
\* of equal score from different series and two from one series
C19_Witness ==
    /\ pc = "done"
    /\ Len(result) >= 2
    /\ result[1].similarity_score = result[2].similarity_score
    /\ \E i, j \in DOMAIN all_matches :
          /\ i < j
          /\ all_matches[i].similarity_score = all_matches[j].similarity_score
          /\ all_matches[i].symbol # all_matches[j].symbol
    /\ \E i, j \in DOMAIN all_matches :
          /\ i < j
          /\ all_matches[i].similarity_score = all_matches[j].similarity_score
          /\ all_matches[i].symbol = all_matches[j].symbol

\* one pass of the loop body on candidate s
ScanOf(s) == IF matcher = "improved" THEN ImprovedScan(s) ELSE SilverScan(s)

\* the retained matches of the candidates 1 .. k, merged in that order
RECURSIVE Merged(_)
Merged(k) ==
    IF k = 0 THEN <<>> ELSE Merged(k - 1) \o FilterMatches(ScanOf(k), min_similarity)

\* what the loop returns when it takes the candidates in their own order
SequentialResult == SliceTo(SortDesc(Merged(Len(target))), top_n)

MatchScores(lst) == [i \in DOMAIN lst |-> lst[i].similarity_score]

Scannable(s) ==
    /\ ~target[s].none
    /\ ~target[s].raises
    /\ Len(target[s].bars) >= MinViableBars

\* C21: exclude_recent decides whether the candidate data concurrent with
\* the reference is excluded: with exclude_recent = False the bars at or
\* after the reference's start time are not dropped, and every window of
\* the candidate's data is scanned.
C21_ExcludeRecentDecides ==
    ((pc = "scan" \/ pc = "done") /\ ReferenceFetched /\ ~exclude_recent) =>
        \A i \in 1..(idx - 1) :
            Scannable(order[i]) =>
                OfSeries(windows, order[i])
                    = ImprovedFindSimilarPatterns(
                          target[order[i]].bars,
                          normalize_pattern_zscore(Col(SilverData, "close")),
                          extract_pattern_features(SilverData), order[i], SilverBars)

\* the first n matches of the scanned windows by descending score
TopOfWindows(n) == SubSeq(SortDesc(windows), 1, Min2(n, Len(windows)))

\* C22: with show_all_top = True the run yields the top-N windows even when
\* their scores are below min_similarity: for top_n >= 1 the result is not
\* empty whenever a window was scanned.
C22_ShowAllTopYieldsTopN ==
    (pc = "done" /\ show_all_top /\ top_n >= 1) =>
        /\ windows # <<>> => result # <<>>
        /\ MatchScores(result) = MatchScores(TopOfWindows(top_n))

\* ----------------------------------------------------------------------
\* properties of the windows find_similar_patterns produces
\* ----------------------------------------------------------------------
\* C23: every match find_similar_patterns produces over a series of n >= L
\* bars denotes a window of exactly L consecutive bars: 0 <= start_index,
\* end_index = start_index + L - 1 <= n - 1, pattern_length = L, start_time
\* and end_time are the timestamps of the bars start_index and end_index of
\* the scanned series; with step 1 there are exactly n - L + 1 windows, one
\* per start offset 0 .. n - L.
C23_WindowsOfExactlyLBars ==
    (score_pc \in {"improved", "silver"} /\ Len(win_data) >= SilverBars) =>
        /\ Len(score_out) = Len(win_data) - SilverBars + 1
        /\ \A k \in DOMAIN score_out :
              LET m == score_out[k]
              IN  /\ m.start_index = k - 1
                  /\ m.start_index >= 0
                  /\ m.end_index = m.start_index + SilverBars - 1
                  /\ m.end_index <= Len(win_data) - 1
                  /\ m.pattern_length = SilverBars
                  /\ m.start_time = win_data[m.start_index + 1].t
                  /\ m.end_time = win_data[m.end_index + 1].t
                  /\ m.end_time - m.start_time = SilverBars - 1

\* the scan of a series of L + 1 bars whose timestamps start at 2 gave two
\* windows, the second at offset 1 over the bars stamped 3 .. L + 2
C23_Witness ==
    /\ score_pc = "improved"
    /\ Len(win_data) = SilverBars + 1
    /\ win_data[1].t = 2
    /\ Len(score_out) = 2
    /\ score_out[2].start_index = 1
    /\ score_out[2].start_time = 3
    /\ score_out[2].end_time = SilverBars + 2

\* ----------------------------------------------------------------------
\* properties of the fallback
\* ----------------------------------------------------------------------
\* shape < 0.3, trend > 0.5 and volatility > 0.5, all strict
FallbackApplies == 10 * fb_sims[1] < 3 * Q /\ 10 * fb_sims[2] > 5 * Q /\ 10 * fb_sims[3] > 5 * Q

\* shape*0.5 + trend*0.3 + volatility*0.2
WeightedScore == Quot(5 * fb_sims[1] + 3 * fb_sims[2] + 2 * fb_sims[3], 10)

\* 0.8 * (trend*0.5 + volatility*0.5)
DampedAlternative == Quot(8 * Quot(5 * fb_sims[2] + 5 * fb_sims[3], 10), 10)

\* C24: the fallback applies exactly when shape < 0.3, trend > 0.5 and
\* volatility > 0.5, all strict: the final score is then the larger of the
\* weighted score and the damped alternative; in every other case, shape =
\* 0.3, trend = 0.5 or volatility = 0.5 included, it is the weighted score.
\* A score the fallback raised never exceeds 0.8.
C24_FallbackExactlyWhenStrict ==
    fb_pc = "scored" =>
        /\ FallbackApplies => fb_score = Max2(WeightedScore, DampedAlternative)
        /\ ~FallbackApplies => fb_score = WeightedScore
        /\ fb_score > WeightedScore => 10 * fb_score <= 8 * Q

\* a shape of exactly 0.3 with trend and volatility at 1 scored with the
\* weighted score, below the damped alternative
C24_Witness ==
    /\ fb_pc = "scored"
    /\ 10 * fb_sims[1] = 3 * Q
    /\ fb_sims[2] = Q
    /\ fb_sims[3] = Q
    /\ fb_score = WeightedScore
    /\ fb_score < DampedAlternative

\* ----------------------------------------------------------------------
\* properties of the DTW code
\* ----------------------------------------------------------------------
\* the monotone warping paths from (1, 1) to (i, j) by the steps (1, 0),
\* (0, 1) and (1, 1), each a sequence of cells
RECURSIVE WarpingPaths(_, _)
WarpingPaths(i, j) ==
    IF i = 1 /\ j = 1 THEN {<< <<1, 1>> >>}
    ELSE LET before == (IF i > 1 THEN WarpingPaths(i - 1, j) ELSE {})
                       \cup (IF j > 1 THEN WarpingPaths(i, j - 1) ELSE {})
                       \cup (IF i > 1 /\ j > 1 THEN WarpingPaths(i - 1, j - 1) ELSE {})
         IN  {Append(path, <<i, j>>) : path \in before}

\* the sum of |a_i - b_j| along a path
PathCost(path, a, b) == SumSeq([k \in DOMAIN path |-> Abs(a[path[k][1]] - b[path[k][2]])])

\* the least cost of a warping path from (1, 1) to (L, L)
MinPathCost(a, b) ==
    LET costs == {PathCost(path, a, b) : path \in WarpingPaths(Len(a), Len(b))}
    IN  CHOOSE c \in costs : \A other \in costs : c <= other

\* C25: for equal-length sequences a, b of length L >= 1 the DTW
\* dissimilarity the code returns is the least sum of |a_i - b_j| over the
\* monotone warping paths from (1, 1) to (L, L); the DTW code of
\* SilverPatternMatcher and of RealPatternMatcher give the same value.
C25_DtwIsMinimalWarpingCost ==
    metric_pc = "dtw" =>
        LET a == metric_out.a
            b == metric_out.b
            least == MinPathCost(a, b)
        IN  /\ Len(a) = Len(b)
            /\ Len(a) >= 1
            /\ metric_out.real_distance = least
            /\ metric_out.real = Max2(0, Q - Quot(Q * least, Len(a) * 100))
            /\ metric_out.silver = metric_out.real

\* two patterns whose least warping cost is 0 although they differ place by
\* place: the warping, not the lockstep sum, decides
C25_Witness ==
    /\ metric_pc = "dtw"
    /\ Len(metric_out.a) >= 3
    /\ metric_out.a # metric_out.b
    /\ metric_out.real_distance = 0
    /\ metric_out.silver = Q
    /\ PathCost([k \in DOMAIN metric_out.a |-> <<k, k>>], metric_out.a, metric_out.b) > 0

\* ----------------------------------------------------------------------
\* properties of the features
\* ----------------------------------------------------------------------
\* the moves of a close series that are not flat, as +1 and -1, in order
RECURSIVE Moves(_)
Moves(cs) ==
    IF Len(cs) < 2 THEN <<>>
    ELSE (IF cs[2] = cs[1] THEN <<>> ELSE <<Sign(cs[2] - cs[1])>>) \o Moves(Tail(cs))

\* the local turning points: a rise followed by a fall, or a fall by a rise
TurningPoints(cs) ==
    Cardinality({i \in 1..(Len(Moves(cs)) - 1) : Moves(cs)[i + 1] # Moves(cs)[i]})

\* C26: direction_changes is the number of sign reversals in the first
\* difference of close, the number of local turning points; a window with
\* no turning point (closes rising, flat for one bar, then rising again,
\* say) has direction_changes = 0.
C26_DirectionChangesCountTurningPoints ==
    metric_pc = "features" =>
        metric_out.features.direction_changes = TurningPoints(Closes(metric_a))

\* ----------------------------------------------------------------------
\* properties of the data manager
\* ----------------------------------------------------------------------
\* the local copy was fresh when the last call was made
WasFresh == dm_last.age_before >= 0 /\ dm_last.age_before < dm_last.max_age_hours

\* the last call left both files as they were
FilesUntouched ==
    dm_last.csv_after = dm_last.csv_before /\ dm_last.age_after = dm_last.age_before

\* C27: get_data prefers local data.  Not forced, fresh and holding at
\* least count bars: it returns the local data without contacting MT5 and
\* without rewriting a file.  Stale or forced: it fetches from MT5, saves and
\* returns the fetched data on success, and falls back to the local copy
\* only if the fetch fails.  Fresh but too short: the local copy is replaced
\* only by a fetch that returns strictly more bars.
C27_GetDataPrefersLocal ==
    dm_last.op = "get_data" =>
        /\ (~dm_last.force_refresh /\ WasFresh /\ dm_last.csv_before.exists
              /\ dm_last.csv_before.n >= dm_last.count)
           => /\ dm_last.returned = dm_last.csv_before
              /\ ~dm_last.contacted
              /\ dm_last.saved = "not called"
              /\ FilesUntouched
        /\ (dm_last.force_refresh \/ ~WasFresh)
           => /\ dm_last.contacted
              /\ dm_last.fetched.exists
                 => /\ dm_last.returned = dm_last.fetched
                    /\ dm_last.saved # "not called"
                    /\ dm_last.saved = "written" => dm_last.csv_after = dm_last.fetched /\ dm_last.age_after = 0
              /\ ~dm_last.fetched.exists
                 => /\ dm_last.returned = dm_last.csv_before
                    /\ FilesUntouched
        /\ (~dm_last.force_refresh /\ WasFresh /\ dm_last.csv_before.exists
              /\ dm_last.csv_before.n < dm_last.count)
           => /\ dm_last.contacted
              /\ IF dm_last.fetched.exists /\ dm_last.fetched.n > dm_last.csv_before.n
                 THEN /\ dm_last.returned = dm_last.fetched
                      /\ dm_last.saved = "written" => dm_last.csv_after = dm_last.fetched
                 ELSE /\ dm_last.returned = dm_last.csv_before
                      /\ dm_last.saved = "not called"
              /\ dm_last.csv_after # dm_last.csv_before
                 => /\ dm_last.csv_after = dm_last.fetched
                    /\ dm_last.fetched.n > dm_last.csv_before.n

\* a call at an age equal to max_age_hours, hence stale, on a local copy
\* long enough: MT5 answered, and the answer replaced the file and was
\* returned
C27_Witness ==
    /\ dm_last.op = "get_data"
    /\ ~dm_last.force_refresh
    /\ dm_last.age_before = dm_last.max_age_hours
    /\ dm_last.csv_before.exists
    /\ dm_last.csv_before.n >= dm_last.count
    /\ dm_last.fetched.exists
    /\ dm_last.returned = dm_last.fetched
    /\ dm_last.csv_after = dm_last.fetched
    /\ dm_last.csv_after # dm_last.csv_before
    /\ dm_last.age_after = 0

\* C28: whatever connect_mt5 and disconnect_mt5 calls came before, and
\* whichever of their initializations and shutdowns failed, connect_mt5
\* returns True only if the held client has been successfully initialized
\* and not since shut down; after a failed initialization it does not
\* report success without initializing again.
C28_ConnectTrueOnlyIfInitialized ==
    (dm_last.op = "connect_mt5" /\ dm_last.returned) =>
        /\ mt5_client = "held"
        /\ client_ready

\* ----------------------------------------------------------------------
\* properties of the menu loop
\* ----------------------------------------------------------------------
\* C29: options 3 and 4 act only if some earlier option-1 run produced a
\* non-empty prediction list, and they always use the predictions of the
\* most recent option-1 run: after a run that finds no matches or yields no
\* predictions they do not present the predictions of an older run.
C29_ChartAndReportUseLatestRun ==
    (menu_last.op \in {"3", "4"} /\ menu_last.outcome = "presented") =>
        /\ menu_last.presented # <<>>
        /\ menu_last.presented[1].run \in 1..menu_runs
        /\ \A i \in DOMAIN menu_last.presented : menu_last.presented[i].run = menu_runs

\* ----------------------------------------------------------------------
\* properties of find_best_matches
\* ----------------------------------------------------------------------
\* the start offsets 0, s, 2s, ... <= n - L for s = max(1, L // 10)
CoarseOffsets ==
    LET s == IF best_size \div 10 > 1 THEN best_size \div 10 ELSE 1
    IN  {k \in 0..(Len(best_data) - best_size) : k % s = 0}

\* C30: find_best_matches returns at most one match, and exactly one when
\* the series has at least L bars: the window with the maximal combined
\* score among the offsets 0, s, 2s, ... <= n - L, s = max(1, L // 10), the
\* earliest such offset on a tie; no window at another offset is scored.
C30_BestAmongCoarseOffsets ==
    /\ \A j \in DOMAIN scored : scored[j] \in CoarseOffsets
    /\ best_pc = "returned" =>
          /\ Len(best_out) <= 1
          /\ Len(best_data) >= best_size => Len(best_out) = 1
          /\ Len(best_out) = 1 =>
                LET m == best_out[1]
                IN  /\ m.start_index \in CoarseOffsets
                    /\ m.similarity_score = ScoreAt(m.start_index).combined
                    /\ \A k \in CoarseOffsets :
                          /\ ScoreAt(k).combined <= m.similarity_score
                          /\ ScoreAt(k).combined = m.similarity_score => m.start_index <= k

\* a scan with a step of two bars has returned a match although a window
\* at an odd offset, never scored, scores higher; and two of the scored
\* windows tie with the returned one
C30_Witness ==
    /\ best_pc = "returned"
    /\ Len(best_out) = 1
    /\ best_size \div 10 = 2
    /\ \E k \in 0..(Len(best_data) - best_size) :
          /\ k % 2 = 1
          /\ \A j \in DOMAIN scored : scored[j] # k
          /\ ScoreAt(k).combined > best_out[1].similarity_score
    /\ \E k \in CoarseOffsets :
          /\ k > best_out[1].start_index
          /\ ScoreAt(k).combined = best_out[1].similarity_score

=============================================================================
